---- MODULE Spec2Model ----
(***************************************************************************)
(* State-machine model of the synkro sync engine (src-tauri/src):          *)
(* join_gossip / create_gossip_ticket, the clipboard monitor, the FS       *)
(* dispatcher (handle_fs_payload) and the gossip receive loop              *)
(* (subscribe_loop) with its download-and-export tasks.                    *)
(*                                                                         *)
(* The process runs on a multi-threaded executor: tasks run in parallel,   *)
(* so every access to shared state (a lock acquisition, a store read) is   *)
(* its own step unless the code holds a lock across the accesses.          *)
(*                                                                         *)
(* Several specifications are defined over the same variables.  Each one   *)
(* enables the operations of one subsystem and leaves the variables of the *)
(* others unchanged; the operations left out do not write the variables    *)
(* the subsystem reads.                                                    *)
(***************************************************************************)
EXTENDS Integers, Sequences, FiniteSets, TLC

\* ------------------------------------------------------------------ bounds
\* user clipboard changes per node
MaxCopies == 2
\* gossip events a remote peer injects into one node's subscriptions
MaxRemote == 2
\* join_gossip commands per node
MaxJoins == 1
\* file operations of the user per node
MaxFsOps == 2
\* tasks of one kind that one file creation sets off on a node: one for the
\* file and one for each directory made for it
MaxTasks == 3
\* setup runs (cold starts) per node
MaxStarts == 2
\* nodes listed in one gossip ticket
MaxNodes == 2
\* join_gossip commands per node where the user joins again
MaxRejoins == 2

\* ------------------------------------------------------------------ values
Nodes == {"A", "B"}
Topics == {"t1", "t2"}
Texts == {"", "x", "y"}
\* a clipboard that holds an image or nothing: get_text() fails
NonText == "<image>"

\* Option<T>: None is the empty sequence, Some(x) the one-element sequence
NoneOpt == <<>>
Some(x) == <<x>>
IsSome(o) == o # <<>>
Unwrap(o) == o[1]

\* std::sync::Mutex holders
Free == <<>>
ByPoller == <<"poller">>
ByRecv(k) == <<"recv", k>>
\* tokio::sync::Mutex holders besides the poller: the join_gossip command and
\* the dispatcher tasks
ByJoin == <<"join">>
ByFs(i) == <<"fs", i>>

\* ---------------------------------------------------------------- payloads
\* The wire form of a payload is its JSON object: a record of the fields.
ClipboardPayload(from_node_id, content) ==
    [from_node_id |-> from_node_id, content |-> content]

\* ClipboardPayload::to_vec: the JSON object with exactly the struct's fields
ClipboardToVec(p) == [from_node_id |-> p.from_node_id, content |-> p.content]

\* variant: an object with any further field is rejected
ClipboardFromBytesStrict(b) ==
    IF DOMAIN b = {"from_node_id", "content"}
    THEN Some([from_node_id |-> b.from_node_id, content |-> b.content])
    ELSE NoneOpt

\* ClipboardPayload::from_bytes: serde accepts any object that has the two
\* fields (unknown fields are ignored) and fails otherwise
ClipboardFromBytes(b) ==
    IF {"from_node_id", "content"} \subseteq DOMAIN b
    THEN Some(ClipboardPayload(b.from_node_id, b.content))
    ELSE NoneOpt

\* GossipEventPayload and its JSON object
GossipEventPayload(from, topic, file_name, relative_path, message_content) ==
    [from |-> from, topic |-> topic, file_name |-> file_name,
     relative_path |-> relative_path, message_content |-> message_content]

FileToVec(p) ==
    [from |-> p.from, topic |-> p.topic, file_name |-> p.file_name,
     relative_path |-> p.relative_path, message_content |-> p.message_content]

\* GossipEventPayload::from_bytes
FileFromBytes(b) ==
    IF {"from", "topic", "file_name", "relative_path", "message_content"} \subseteq DOMAIN b
    THEN Some(GossipEventPayload(b.from, b.topic, b.file_name, b.relative_path,
                                 b.message_content))
    ELSE NoneOpt

\* ------------------------------------------------------------- gossip ticket
\* NodeAddr: a NodeId plus addressing information (relay url, direct addresses)
NodeAddr(id, info) == [node_id |-> id, has_info |-> info]

GossipTicket(topic, nodes) == [topic |-> topic, nodes |-> nodes]

\* the tickets that list at most MaxNodes nodes
Tickets ==
    LET NodeAddrs == { NodeAddr(id, info) : id \in {"A", "B"}, info \in BOOLEAN }
        NodeLists == UNION { [1..k -> NodeAddrs] : k \in 0..MaxNodes }
    IN  { GossipTicket(topic, nodes) : topic \in Topics, nodes \in NodeLists }

\* serde_json::to_vec of a ticket: the bytes of the JSON document, one byte
\* standing for each value in it: the topic, then node id and addressing
\* information of every node
TopicByte(topic) == IF topic = "t1" THEN 161 ELSE 94
NodeByte(id) == CASE id = "A" -> 65 [] id = "B" -> 66 [] OTHER -> 82
InfoByte(info) == IF info THEN 255 ELSE 0

\* GossipTicket::to_bytes
to_bytes(t) ==
    LET size == 1 + 2 * Len(t.nodes)
    IN  SubSeq([i \in 1..size |->
                   IF i = 1 THEN TopicByte(t.topic)
                   ELSE IF i % 2 = 0 THEN NodeByte(t.nodes[i \div 2].node_id)
                   ELSE InfoByte(t.nodes[(i - 1) \div 2].has_info)], 1, size)

\* GossipTicket::from_bytes: serde_json::from_slice reads the values back;
\* bytes that are no document of a ticket are an error
from_bytes(bytes) ==
    LET count == (Len(bytes) - 1) \div 2
        IsTopic(b) == \E topic \in Topics : TopicByte(topic) = b
        IsNode(b) == \E id \in {"A", "B", "R"} : NodeByte(id) = b
        IsInfo(b) == \E info \in BOOLEAN : InfoByte(info) = b
    IN  IF /\ Len(bytes) % 2 = 1
           /\ IsTopic(bytes[1])
           /\ \A k \in 1..count : IsNode(bytes[2 * k]) /\ IsInfo(bytes[2 * k + 1])
        THEN Some(GossipTicket(
                 CHOOSE topic \in Topics : TopicByte(topic) = bytes[1],
                 SubSeq([k \in 1..count |->
                     NodeAddr(CHOOSE id \in {"A", "B", "R"} : NodeByte(id) = bytes[2 * k],
                              CHOOSE info \in BOOLEAN : InfoByte(info) = bytes[2 * k + 1])],
                        1, count)))
        ELSE NoneOpt

\* data_encoding::BASE32_NOPAD: the RFC 4648 alphabet, 5 bits a symbol,
\* no padding
Base32Alphabet ==
    << "A", "B", "C", "D", "E", "F", "G", "H", "I", "J", "K", "L", "M", "N", "O", "P",
       "Q", "R", "S", "T", "U", "V", "W", "X", "Y", "Z", "2", "3", "4", "5", "6", "7" >>
LowerLetters ==
    << "a", "b", "c", "d", "e", "f", "g", "h", "i", "j", "k", "l", "m", "n", "o", "p",
       "q", "r", "s", "t", "u", "v", "w", "x", "y", "z" >>

\* BASE32_NOPAD.encode: the bits of the bytes, most significant first, in
\* groups of five, the last group filled with zero bits
Base32Encode(bytes) ==
    LET size == 8 * Len(bytes)
        bit(i) == IF i <= size
                  THEN (bytes[((i - 1) \div 8) + 1] \div 2^(7 - ((i - 1) % 8))) % 2
                  ELSE 0
        value(j) == 16 * bit(5 * j - 4) + 8 * bit(5 * j - 3) + 4 * bit(5 * j - 2)
                    + 2 * bit(5 * j - 1) + bit(5 * j)
        count == (size + 4) \div 5
    IN  SubSeq([j \in 1..count |-> Base32Alphabet[value(j) + 1]], 1, count)

\* BASE32_NOPAD.decode: every symbol must be of the alphabet, the length one
\* that an encoding has and the bits beyond the last byte zero
Base32Decode(chars) ==
    LET n == Len(chars)
        valid == \A j \in 1..n : \E v \in 0..31 : Base32Alphabet[v + 1] = chars[j]
        SymbolValue(c) == CHOOSE v \in 0..31 : Base32Alphabet[v + 1] = c
        values == SubSeq([j \in 1..n |-> SymbolValue(chars[j])], 1, n)
        bit(i) == (values[((i - 1) \div 5) + 1] \div 2^(4 - ((i - 1) % 5))) % 2
        count == (5 * n) \div 8
        byte(k) == 128 * bit(8 * k - 7) + 64 * bit(8 * k - 6) + 32 * bit(8 * k - 5)
                   + 16 * bit(8 * k - 4) + 8 * bit(8 * k - 3) + 4 * bit(8 * k - 2)
                   + 2 * bit(8 * k - 1) + bit(8 * k)
    IN  IF /\ valid
           /\ (n % 8) \notin {1, 3, 6}
           /\ \A i \in (8 * count + 1)..(5 * n) : bit(i) = 0
        THEN Some(SubSeq([k \in 1..count |-> byte(k)], 1, count))
        ELSE NoneOpt

\* String::make_ascii_lowercase
make_ascii_lowercase(chars) ==
    SubSeq([j \in 1..Len(chars) |->
               IF \E i \in 1..26 : Base32Alphabet[i] = chars[j]
               THEN LowerLetters[CHOOSE i \in 1..26 : Base32Alphabet[i] = chars[j]]
               ELSE chars[j]], 1, Len(chars))

\* variant: the string is decoded as it was given
KeepCase(chars) == chars

\* str::to_ascii_uppercase
to_ascii_uppercase(chars) ==
    SubSeq([j \in 1..Len(chars) |->
               IF \E i \in 1..26 : LowerLetters[i] = chars[j]
               THEN Base32Alphabet[CHOOSE i \in 1..26 : LowerLetters[i] = chars[j]]
               ELSE chars[j]], 1, Len(chars))

\* Display for GossipTicket: the ticket string
TicketToString(t) == make_ascii_lowercase(Base32Encode(to_bytes(t)))

\* a string that is not the Base32 of a ticket's JSON
BadTicketString == <<"n", "o", "!">>

\* GossipTicket::from_str
from_str(s) ==
    LET bytes == Base32Decode(to_ascii_uppercase(s))
    IN  IF IsSome(bytes) THEN from_bytes(Unwrap(bytes)) ELSE NoneOpt

\* str_gossip_ticket.parse::<GossipTicket>(): from_str, tabulated over the
\* strings of the tickets above
Parsed == [s \in { TicketToString(t) : t \in Tickets } |-> from_str(s)]
TicketFromStr(s) == IF s \in DOMAIN Parsed THEN Parsed[s] ELSE from_str(s)

\* the ticket strings a user may hand to join_gossip
JoinInputs ==
    { TicketToString(GossipTicket("t1", <<NodeAddr("B", TRUE)>>)),
      TicketToString(GossipTicket("t2", <<NodeAddr("A", TRUE)>>)),
      TicketToString(GossipTicket("t1", <<NodeAddr("B", FALSE)>>)),
      BadTicketString }

\* -------------------------------------------------------------------- paths
\* A path is the sequence of its components; an absolute path starts with the
\* root component "/".  A path string is the sequence of its tokens, the
\* separator "/" being a token.
RootDir == <<"/">>
IsAbsolute(p) == p # <<>> /\ p[1] = "/"

\* Path::to_string_lossy for a path of UTF-8 names
RECURSIVE Interleave(_)
Interleave(comps) ==
    IF Len(comps) <= 1 THEN comps
    ELSE <<Head(comps), "/">> \o Interleave(Tail(comps))

PathToString(p) ==
    IF IsAbsolute(p) THEN <<"/">> \o Interleave(Tail(p)) ELSE Interleave(p)

\* Path::new(string).components(): separators and "." are dropped, ".." is kept
PathFromString(s) ==
    LET names == SelectSeq(s, LAMBDA c : c \notin {"/", "."})
    IN  IF s # <<>> /\ s[1] = "/" THEN <<"/">> \o names ELSE names

\* PathBuf::join: an absolute argument replaces the base
PathJoin(base, rel) == IF IsAbsolute(rel) THEN rel ELSE base \o rel

\* Path::parent
PathParent(p) ==
    IF p = <<>> \/ p = RootDir THEN NoneOpt ELSE Some(SubSeq(p, 1, Len(p) - 1))

\* Path::file_name
PathFileName(p) ==
    IF p = <<>> \/ p = RootDir \/ p[Len(p)] = ".." THEN NoneOpt ELSE Some(p[Len(p)])

\* variant: the prefix is left on the path
StripPrefixKept(p, base) == Some(p)

\* Path::strip_prefix
StripPrefix(p, base) ==
    IF Len(base) <= Len(p) /\ SubSeq(p, 1, Len(base)) = base
    THEN Some(SubSeq(p, Len(base) + 1, Len(p)))
    ELSE NoneOpt

\* the file the operating system reaches through p: ".." steps to the parent
RECURSIVE Walk(_, _)
Walk(at, rest) ==
    IF rest = <<>> THEN at
    ELSE IF Head(rest) = ".."
         THEN Walk(IF Len(at) > 1 THEN SubSeq(at, 1, Len(at) - 1) ELSE at, Tail(rest))
         ELSE Walk(Append(at, Head(rest)), Tail(rest))

Resolve(p) == Walk(<<>>, p)

\* ------------------------------------------------------------- file system
\* A file system maps each existing absolute path to "<dir>" or, for a file,
\* to its content.
Dir == "<dir>"
Contents == {"hi", "yo"}

Prefixes(p) == { SubSeq(p, 1, i) : i \in 1..Len(p) }

\* Path::exists
Exists(f, p) == IsAbsolute(p) /\ Resolve(p) \in DOMAIN f
IsDir(f, p) == Exists(f, p) /\ f[Resolve(p)] = Dir
IsFile(f, p) == Exists(f, p) /\ f[Resolve(p)] # Dir

\* std::fs::create_dir_all succeeds iff no component of the path is a file
CreateDirAllOk(f, p) ==
    IsAbsolute(p) /\ \A q \in Prefixes(Resolve(p)) : q \in DOMAIN f => f[q] = Dir

\* the directories std::fs::create_dir_all makes: the missing ones on the path
\* down to the first component that is a file
MadeDirs(f, p) ==
    { q \in Prefixes(Resolve(p)) :
        /\ q \notin DOMAIN f
        /\ \A r \in Prefixes(q) : r \in DOMAIN f => f[r] = Dir }

CreateDirAll(f, p) ==
    [q \in DOMAIN f \cup MadeDirs(f, p) |-> IF q \in DOMAIN f THEN f[q] ELSE Dir]

\* writing a file: the parent is a directory and the path is not one
WriteOk(f, p) ==
    /\ IsAbsolute(p) /\ Len(Resolve(p)) > 1
    /\ IsDir(f, Unwrap(PathParent(Resolve(p))))
    /\ ~IsDir(f, p)

WriteFile(f, p, content) ==
    [q \in DOMAIN f \cup {Resolve(p)} |-> IF q = Resolve(p) THEN content ELSE f[q]]

RemoveFile(f, p) == [q \in DOMAIN f \ {Resolve(p)} |-> f[q]]

\* the sync folder of every node (the "sync-folder-path" of its store)
SyncFolder == <<"/", "sync">>

\* ------------------------------------------------------------------- blobs
\* A blob is addressed by the hash of its content.
Hash(content) == <<"blake3", content>>

\* BlobTicket::new(..).to_string() and a string that is no ticket
BlobTicketString(node_id, hash) == [hash |-> hash, kind |-> "blob", node |-> node_id]
BadBlobTicket == [kind |-> "junk"]

\* str_ticket.parse::<BlobTicket>()
BlobTicketFromStr(s) ==
    IF s.kind = "blob" THEN Some([hash |-> s.hash, node |-> s.node]) ELSE NoneOpt

VARIABLES
    appstate,       \* AppState as managed by setup (None before)
    store,          \* the config store store.json
    gossip_topic,   \* AppState.gossip_topic   (active_topic)
    gossip_sender,  \* AppState.gossip_sender  (active_sender)
    join,           \* the join_gossip command in flight
    joins,          \* join_gossip commands issued
    subs,           \* gossip subscriptions: receiver stream and its loop
    injected,       \* events injected by remote peers
    issued,         \* ticket strings create_gossip_ticket has returned
    handled,        \* the event the receive loop handled last
    clipboard,      \* the system clipboard
    last_content,   \* ClipboardMonitor.last_content ("last observed")
    clip_lock,      \* holder of the Mutex around the clipboard handle
    last_lock,      \* holder of the Mutex around last_content
    poller,         \* the start_monitoring task
    copies,         \* user clipboard changes
    echo_guard,     \* texts applied from the network and not placed again by the user
    placed,         \* how the clipboard content got there, for content the user placed
    sent,           \* payloads handed to the overlay by a successful broadcast
    fs,             \* the file system of each node
    watcher,        \* the FS event loop of handle_watcher: off, running, dead
    watch_q,        \* the channel from the notify watcher to handle_watcher
    fs_tasks,       \* the tasks handle_fs_payload has spawned
    fs_calls,       \* the sender.broadcast calls of those tasks
    sender_lock,    \* holder of the async Mutex around gossip_sender
    topic_lock,     \* holder of the async Mutex around gossip_topic
    blob_store,     \* the contents each node's blob store holds
    downloads,      \* the download-and-export tasks of the receive loop
    fsops,          \* file operations of the user
    secret_key,     \* the file secret_key in the app data directory
    setup_result,   \* outcome of the setup task handle_setup spawned: none, ok, err
    endpoint_key,   \* the secret key this run's endpoint is bound with
    starts,         \* setup runs so far (cold starts)
    node_infos,     \* node ids get_node_info has returned, with the run that returned them
    emitted,        \* events emitted to the host shell
    window,         \* the main window: open or closed
    cleanup,        \* the cleanup task spawned on a close request
    watch_thread,   \* the watcher thread of start_watching: off, watching, exited
    address_book,   \* node ids whose address the endpoint was given by add_node_addr
    bootstrap,      \* the bootstrap peers of each gossip.subscribe call
    fs_event        \* the payload of the fs-event emitted last

coreVars == <<appstate, store, gossip_topic, gossip_sender, join, joins, subs, injected, issued, handled>>
clipVars == <<clipboard, last_content, clip_lock, last_lock, poller, copies, echo_guard, placed>>
fileVars == <<fs, watcher, watch_q, fs_tasks, fs_calls, sender_lock, topic_lock, blob_store, downloads, fsops>>
\* fileVars but the two locks
fsVars == <<fs, watcher, watch_q, fs_tasks, fs_calls, blob_store, downloads, fsops>>
bootVars == <<secret_key, setup_result, endpoint_key, starts, node_infos, emitted, window, cleanup,
             watch_thread, address_book, bootstrap, fs_event>>
vars == <<coreVars, clipVars, sent, fileVars, bootVars>>

\* ------------------------------------------------------------------- store
\* variant: an unset flag counts as enabled
SharingEnabledUnlessFalse(n) == store[n].sharing # "false"

\* store.get("clipboard_sharing_enabled").and_then(|v| v.as_bool()).unwrap_or(false)
SharingEnabled(n) == store[n].sharing = "true"

\* TopicId::to_string, the value written under "topic-id": a JSON string
TopicToString(t) == [topic |-> t, repr |-> "string"]

\* serde_json::from_value::<TopicId>: TopicId derives Deserialize over its
\* 32-byte array, so a JSON array of bytes decodes and a JSON string does not
TopicFromValue(v) == IF v.repr = "bytes" THEN Some(v.topic) ELSE NoneOpt

\* ------------------------------------------------------------------- setup
\* setup lines 29-30: the key is an array of 32 bytes
KeyLen == 32

\* SecretKey::generate, to_bytes and from_bytes: a key is its 32 bytes
Key(b) == [i \in 1..KeyLen |-> b]
Keys == {Key(1), Key(2)}

\* Endpoint::node_id: the public key of the secret key
PublicKey(secret) == <<"public", secret>>

\* setup lines 25-36: a missing file is fine, an existing one must hold
\* exactly 32 bytes
SecretKeyOk(file) == file = NoneOpt \/ Len(Unwrap(file)) = KeyLen

\* variant: a key is drawn at every start
SecretKeyFresh(file, generated) == generated

\* setup lines 25-51: the key of the file, or the generated one when there is
\* no file
SecretKeyOf(file, generated) == IF IsSome(file) THEN Unwrap(file) ELSE generated

\* variant: a file of the wrong size is replaced by a fresh key
SecretKeyFileRegenerated(file, generated) ==
    IF IsSome(file) /\ Len(Unwrap(file)) = KeyLen THEN file ELSE Some(generated)

\* setup lines 39-48: the file after the key was loaded: written only when
\* it was missing
SecretKeyFile(file, generated) == IF IsSome(file) THEN file ELSE Some(generated)

\* where a setup run can fail: the app data directory (lines 17-22) and the
\* start of endpoint, blobs, gossip and router (lines 53-74)
SetupFaults == {"none", "data_dir", "bind"}

\* handle_setup lines 39-53 with iroh_fns::setup: the spawned task loads or
\* generates the secret key, binds the endpoint, builds AppState once and
\* manages it, and spawns the monitoring task when ClipboardMonitor::new
\* succeeded; the outcome is logged and nothing is emitted
SetupRun(n, generated, fault) ==
    /\ appstate[n] = NoneOpt
    /\ setup_result[n] = "none"
    /\ starts[n] < MaxStarts
    /\ starts' = [starts EXCEPT ![n] = @ + 1]
    /\ IF fault = "data_dir"
       THEN /\ setup_result' = [setup_result EXCEPT ![n] = "err"]
            /\ UNCHANGED <<appstate, poller, secret_key, endpoint_key>>
       ELSE /\ secret_key' = [secret_key EXCEPT ![n] = SecretKeyFile(@, generated)]
            /\ IF SecretKeyOk(secret_key[n]) /\ fault = "none"
               THEN /\ setup_result' = [setup_result EXCEPT ![n] = "ok"]
                    /\ endpoint_key' = [endpoint_key EXCEPT ![n] =
                           Some(SecretKeyOf(secret_key[n], generated))]
                    /\ \E monitor \in BOOLEAN :
                        /\ appstate' = [appstate EXCEPT ![n] =
                               Some([endpoint |-> Some(n), blobs |-> TRUE, gossip |-> TRUE,
                                     clipboard_monitor |-> monitor, router |-> TRUE,
                                     sync_task_handle |-> NoneOpt])]
                        /\ poller' = [poller EXCEPT ![n].pc = IF monitor THEN "sleep" ELSE "off"]
               ELSE /\ setup_result' = [setup_result EXCEPT ![n] = "err"]
                    /\ UNCHANGED <<appstate, poller, endpoint_key>>
    /\ UNCHANGED <<store, gossip_topic, gossip_sender, join, joins, subs, injected, issued, handled>>
    /\ UNCHANGED <<clipboard, last_content, clip_lock, last_lock, copies, echo_guard, placed, sent>>
    /\ UNCHANGED fileVars
    /\ UNCHANGED <<node_infos, emitted, window, cleanup, watch_thread, address_book, bootstrap, fs_event>>

\* the key a node draws when its secret_key file is missing
KeyOf(n) == IF n = "A" THEN Key(1) ELSE Key(2)

\* a setup run in which the data directory and the network are available
Setup(n) == SetupRun(n, KeyOf(n), "none")

Managed(n) == IsSome(appstate[n])
State(n) == Unwrap(appstate[n])

\* ------------------------------------------------------ clipboard commands
enable_clipboard_sharing(n) ==
    /\ store' = [store EXCEPT ![n].sharing = "true"]
    /\ UNCHANGED <<appstate, gossip_topic, gossip_sender, join, joins, subs, injected, issued, handled>>
    /\ UNCHANGED <<clipVars, sent>>
    /\ UNCHANGED fileVars
    /\ UNCHANGED bootVars

disable_clipboard_sharing(n) ==
    /\ store' = [store EXCEPT ![n].sharing = "false"]
    /\ UNCHANGED <<appstate, gossip_topic, gossip_sender, join, joins, subs, injected, issued, handled>>
    /\ UNCHANGED <<clipVars, sent>>
    /\ UNCHANGED fileVars
    /\ UNCHANGED bootVars

\* lines 98-134: the conditions under which a tick is skipped
TickSkipped(n) ==
    \/ ~SharingEnabled(n)
    \/ ~Managed(n)
    \/ gossip_sender[n] = NoneOpt
    \/ gossip_topic[n] = NoneOpt

\* the user copies something: text, or an image.  placed records whether the
\* content was placed while ticks are skipped ("quiet", or "quiet_stale"
\* while a tick that began earlier is still in progress) or not ("live"); it
\* is "reading" once a tick that began after the copy has read quiet content
\* and "none" when the content is not the user's or a tick that read it has
\* ended.
UserCopy(n, v) ==
    /\ copies[n] < MaxCopies
    /\ v # clipboard[n]
    /\ clipboard' = [clipboard EXCEPT ![n] = v]
    /\ copies' = [copies EXCEPT ![n] = @ + 1]
    /\ echo_guard' = [echo_guard EXCEPT ![n] = @ \ {v}]
    /\ placed' = [placed EXCEPT ![n] =
           IF ~TickSkipped(n) THEN "live"
           ELSE IF poller[n].pc \in {"sleep", "off"} THEN "quiet" ELSE "quiet_stale"]
    /\ UNCHANGED <<coreVars, last_content, clip_lock, last_lock, poller, sent>>
    /\ UNCHANGED fileVars
    /\ UNCHANGED bootVars

\* --------------------------------------------------------------- the overlay
\* GossipSender::broadcast returned Ok: the payload is on the overlay.  It is
\* appended to every other node's subscriptions to the sender's topic
\* (a node never receives what it sent itself).
Deliver(ss, n, topic, bytes) ==
    [m \in Nodes |->
        IF m = n THEN ss[m]
        ELSE [k \in 1..Len(ss[m]) |->
                 IF ss[m][k].topic = topic
                 THEN [ss[m][k] EXCEPT !.inbox = Append(@, bytes)]
                 ELSE ss[m][k]]]

\* ------------------------------------------------------- clipboard monitor
\* variant: the tick does not look at the sharing flag
PollTickUngated(n) ==
    /\ poller[n].pc = "sleep"
    /\ Managed(n)
    /\ IF IsSome(State(n).endpoint)
       THEN poller' = [poller EXCEPT ![n].pc = "lock_sender"]
       ELSE poller' = poller
    /\ UNCHANGED <<coreVars, clipboard, last_content, clip_lock, last_lock, copies, echo_guard, placed, sent>>
    /\ UNCHANGED fileVars
    /\ UNCHANGED bootVars

\* start_monitoring, one step per access to shared state.
\* lines 95-126: the tick starts; sharing flag and endpoint are checked
PollTick(n) ==
    /\ poller[n].pc = "sleep"
    /\ Managed(n)
    /\ IF SharingEnabled(n) /\ IsSome(State(n).endpoint)
       THEN poller' = [poller EXCEPT ![n].pc = "lock_sender"]
       ELSE poller' = poller
    /\ UNCHANGED <<coreVars, clipboard, last_content, clip_lock, last_lock, copies, echo_guard, placed, sent>>
    /\ UNCHANGED fileVars
    /\ UNCHANGED bootVars

\* variant: the guard of gossip_sender is kept for the rest of the tick
PollReadSenderHolding(n) ==
    /\ poller[n].pc = "lock_sender"
    /\ sender_lock[n] \in {Free, ByPoller}
    /\ sender_lock' = [sender_lock EXCEPT ![n] = ByPoller]
    /\ poller' = [poller EXCEPT ![n].pc = "lock_topic", ![n].sender = gossip_sender[n]]
    /\ UNCHANGED <<coreVars, clipboard, last_content, clip_lock, last_lock, copies, echo_guard, placed, sent>>
    /\ UNCHANGED <<fsVars, topic_lock>>
    /\ UNCHANGED bootVars

\* line 128: gossip_sender.lock().await.clone()
PollReadSender(n) ==
    /\ poller[n].pc = "lock_sender"
    /\ sender_lock[n] \in {Free, ByPoller}
    /\ sender_lock' = [sender_lock EXCEPT ![n] = Free]
    /\ poller' = [poller EXCEPT ![n].pc = "lock_topic", ![n].sender = gossip_sender[n]]
    /\ UNCHANGED <<coreVars, clipboard, last_content, clip_lock, last_lock, copies, echo_guard, placed, sent>>
    /\ UNCHANGED <<fsVars, topic_lock>>
    /\ UNCHANGED bootVars

\* lines 129-134: gossip_topic.lock().await.clone(), then the readiness check
PollReadTopic(n) ==
    /\ poller[n].pc = "lock_topic"
    /\ topic_lock[n] \in {Free, ByPoller}
    /\ topic_lock' = [topic_lock EXCEPT ![n] = Free]
    /\ IF IsSome(poller[n].sender) /\ IsSome(gossip_topic[n])
       THEN /\ poller' = [poller EXCEPT ![n].pc = "get_text", ![n].topic = gossip_topic[n]]
            /\ placed' = placed
       ELSE /\ poller' = [poller EXCEPT ![n].pc = "sleep", ![n].sender = NoneOpt]
            /\ placed' = [placed EXCEPT ![n] = IF @ = "quiet_stale" THEN "quiet" ELSE @]
    /\ UNCHANGED <<coreVars, clipboard, last_content, clip_lock, last_lock, copies, echo_guard, sent>>
    /\ UNCHANGED <<fsVars, sender_lock>>
    /\ UNCHANGED bootVars

\* variant: a failed read is compared like a text
PollGetTextAny(n) ==
    /\ poller[n].pc = "get_text"
    /\ clip_lock[n] \in {Free, ByPoller}
    /\ clip_lock' = [clip_lock EXCEPT ![n] = Free]
    /\ poller' = [poller EXCEPT ![n].pc = "compare", ![n].text = Some(clipboard[n])]
    /\ UNCHANGED <<coreVars, clipboard, last_content, last_lock, copies, echo_guard, placed, sent>>
    /\ UNCHANGED fileVars
    /\ UNCHANGED bootVars

\* lines 142-145 and 166-177: the clipboard is read under its lock, which is
\* released at once; a failed read ends the tick
PollGetText(n) ==
    /\ poller[n].pc = "get_text"
    /\ clip_lock[n] \in {Free, ByPoller}
    /\ clip_lock' = [clip_lock EXCEPT ![n] = Free]
    /\ IF clipboard[n] = NonText
       THEN /\ poller' = [poller EXCEPT ![n].pc = "sleep", ![n].sender = NoneOpt,
                                        ![n].topic = NoneOpt]
            /\ placed' = [placed EXCEPT ![n] = IF @ = "quiet_stale" THEN "quiet" ELSE @]
       ELSE /\ poller' = [poller EXCEPT ![n].pc = "compare", ![n].text = Some(clipboard[n])]
            /\ placed' = [placed EXCEPT ![n] =
                   CASE @ = "quiet" -> "reading"
                     [] @ = "quiet_stale" -> "none"
                     [] OTHER -> @]
    /\ UNCHANGED <<coreVars, clipboard, last_content, last_lock, copies, echo_guard, sent>>
    /\ UNCHANGED fileVars
    /\ UNCHANGED bootVars

PollIdle(n) == [poller[n] EXCEPT !.pc = "sleep", !.sender = NoneOpt,
                                 !.topic = NoneOpt, !.text = NoneOpt]

\* variant: an empty clipboard text counts as a change
PollDiffersOrEmpty(current_text, last) == current_text # last

\* lines 150-151: last_content is locked and compared; on a difference the
\* broadcast is awaited with the lock held
PollDiffers(current_text, last) == current_text # last /\ current_text # ""

PollCompare(n) ==
    /\ poller[n].pc = "compare"
    /\ last_lock[n] = Free
    /\ IF PollDiffers(Unwrap(poller[n].text), last_content[n])
       THEN /\ poller' = [poller EXCEPT ![n].pc = "broadcast"]
            /\ last_lock' = [last_lock EXCEPT ![n] = ByPoller]
            /\ placed' = placed
       ELSE /\ poller' = [poller EXCEPT ![n] = PollIdle(n)]
            /\ last_lock' = last_lock
            /\ placed' = [placed EXCEPT ![n] = IF @ = "reading" THEN "none" ELSE @]
    /\ UNCHANGED <<coreVars, clipboard, last_content, clip_lock, copies, echo_guard, sent>>
    /\ UNCHANGED fileVars
    /\ UNCHANGED bootVars

\* lines 154-163: the broadcast returns; last_content is updated on success only
PollBroadcast(n) ==
    /\ poller[n].pc = "broadcast"
    /\ \E ok \in BOOLEAN :
        LET text == Unwrap(poller[n].text)
            bytes == ClipboardToVec(ClipboardPayload(n, text))
            topic == Unwrap(poller[n].topic)
        IN  IF ok
            THEN /\ last_content' = [last_content EXCEPT ![n] = text]
                 /\ sent' = [sent EXCEPT ![n] = Append(@, bytes)]
                 /\ subs' = Deliver(subs, n, topic, bytes)
            ELSE UNCHANGED <<last_content, sent, subs>>
    /\ poller' = [poller EXCEPT ![n] = PollIdle(n)]
    /\ last_lock' = [last_lock EXCEPT ![n] = Free]
    /\ placed' = [placed EXCEPT ![n] = IF @ = "reading" THEN "none" ELSE @]
    /\ UNCHANGED <<appstate, store, gossip_topic, gossip_sender, join, joins, injected, issued, handled>>
    /\ UNCHANGED <<clipboard, clip_lock, copies, echo_guard>>
    /\ UNCHANGED fileVars
    /\ UNCHANGED bootVars

\* --------------------------------------------------------- gossip commands
\* commands::gossip_commands::create_gossip_ticket: the stored topic-id is
\* reused when it decodes, else a random topic is drawn; the topic is written
\* to the store and a ticket naming this node is returned.
create_gossip_ticket(n) ==
    /\ Managed(n)
    /\ IsSome(State(n).endpoint)
    /\ \E random \in Topics :
        LET stored == IF IsSome(store[n].topic_id)
                      THEN TopicFromValue(Unwrap(store[n].topic_id))
                      ELSE NoneOpt
            topic_id == IF IsSome(stored) THEN Unwrap(stored) ELSE random
            me == NodeAddr(Unwrap(State(n).endpoint), TRUE)
        IN  /\ store' = [store EXCEPT ![n].topic_id = Some(TopicToString(topic_id))]
            /\ issued' = issued \cup {TicketToString(GossipTicket(topic_id, <<me>>))}
    /\ UNCHANGED <<appstate, gossip_topic, gossip_sender, join, joins, subs, injected, handled>>
    /\ UNCHANGED <<clipVars, sent>>
    /\ UNCHANGED fileVars
    /\ UNCHANGED bootVars

JoinIdle(result) == [pc |-> "idle", result |-> result, ticket |-> BadTicketString, sub |-> 0]

\* variant: a ticket that does not parse clears the stored topic
JoinCommandClearing(n, str_gossip_ticket) ==
    /\ Managed(n)
    /\ join[n].pc = "idle"
    /\ joins' = [joins EXCEPT ![n] = @ + 1]
    /\ LET parsed == TicketFromStr(str_gossip_ticket)
       IN  IF IsSome(State(n).endpoint) /\ State(n).gossip /\ IsSome(parsed)
           THEN /\ store' = [store EXCEPT ![n].topic_id =
                                 Some(TopicToString(Unwrap(parsed).topic))]
                /\ join' = [join EXCEPT ![n] = [pc |-> "set_topic",
                                result |-> "none", ticket |-> str_gossip_ticket, sub |-> 0]]
           ELSE /\ store' = [store EXCEPT ![n].topic_id = NoneOpt]
                /\ join' = [join EXCEPT ![n] = [JoinIdle("err") EXCEPT !.ticket = str_gossip_ticket]]
    /\ UNCHANGED <<appstate, gossip_topic, gossip_sender, subs, injected, issued, handled>>
    /\ UNCHANGED <<clipVars, sent>>
    /\ UNCHANGED fileVars
    /\ UNCHANGED bootVars

\* join_gossip lines 82-100: handles are fetched, the ticket is parsed and its
\* topic is written to the store; an error ends the command, whose argument
\* stays on record
JoinCommand(n, str_gossip_ticket) ==
    /\ Managed(n)
    /\ join[n].pc = "idle"
    /\ joins' = [joins EXCEPT ![n] = @ + 1]
    /\ LET parsed == TicketFromStr(str_gossip_ticket)
       IN  IF IsSome(State(n).endpoint) /\ State(n).gossip /\ IsSome(parsed)
           THEN /\ store' = [store EXCEPT ![n].topic_id =
                                 Some(TopicToString(Unwrap(parsed).topic))]
                /\ join' = [join EXCEPT ![n] = [pc |-> "set_topic",
                                result |-> "none", ticket |-> str_gossip_ticket, sub |-> 0]]
           ELSE /\ store' = store
                /\ join' = [join EXCEPT ![n] = [JoinIdle("err") EXCEPT !.ticket = str_gossip_ticket]]
    /\ UNCHANGED <<appstate, gossip_topic, gossip_sender, subs, injected, issued, handled>>
    /\ UNCHANGED <<clipVars, sent>>
    /\ UNCHANGED fileVars
    /\ UNCHANGED bootVars

\* the join_gossip command, as often as the user issues it
JoinStart(n, str_gossip_ticket) ==
    /\ joins[n] < MaxJoins
    /\ JoinCommand(n, str_gossip_ticket)

\* variant: every node of the ticket is a peer to connect to
NodesToConnectAll(me, nodes) == nodes

\* join_iroh_gossip line 51-54: the ticket's nodes without this node
NodesToConnect(me, nodes) == SelectSeq(nodes, LAMBDA a : a.node_id # me)

\* Endpoint::add_node_addr refuses an address without addressing information
AddNodeAddrOk(node_addr) == node_addr.has_info

\* variant: a new subscription is handed the announcements sent on the topic
\* before it existed
NewSubReplayed(topic) ==
    [content |-> NoneOpt, topic |-> topic, pc |-> "next",
     inbox |-> SelectSeq(sent["A"], LAMBDA b : IsSome(FileFromBytes(b)) /\ b.topic = topic),
     loop |-> FALSE]

\* Gossip::subscribe: a fresh stream; nothing sent earlier is replayed
NewSub(topic) == [content |-> NoneOpt, topic |-> topic, pc |-> "next",
                  inbox |-> <<>>, loop |-> FALSE]

\* join_iroh_gossip lines 66-69: add_node_addr is called for the peers in
\* turn; the first refusal ends the loop with the error
RECURSIVE AddedBefore(_)
AddedBefore(peers) ==
    IF peers = <<>> \/ ~AddNodeAddrOk(Head(peers)) THEN {}
    ELSE {Head(peers).node_id} \cup AddedBefore(Tail(peers))

\* join_iroh_gossip line 58: the node ids handed to gossip.subscribe
NodeIdsToJoin(peers) == [i \in 1..Len(peers) |-> peers[i].node_id]

\* join_gossip lines 102-112 with join_iroh_gossip lines 49-77: gossip_topic is
\* set under its lock, then join_iroh_gossip installs the peers and
\* subscribes; its error ends the command
JoinSetTopic(n) ==
    /\ join[n].pc = "set_topic"
    /\ topic_lock[n] \in {Free, ByJoin}
    /\ topic_lock' = [topic_lock EXCEPT ![n] = Free]
    /\ LET t == Unwrap(TicketFromStr(join[n].ticket))
           peers == NodesToConnect(Unwrap(State(n).endpoint), t.nodes)
       IN  /\ gossip_topic' = [gossip_topic EXCEPT ![n] = Some(t.topic)]
           /\ address_book' = [address_book EXCEPT ![n] = @ \cup AddedBefore(peers)]
           /\ IF \A i \in 1..Len(peers) : AddNodeAddrOk(peers[i])
              THEN /\ subs' = [subs EXCEPT ![n] = Append(@, NewSub(t.topic))]
                   /\ bootstrap' = [bootstrap EXCEPT ![n] = Append(@, NodeIdsToJoin(peers))]
                   /\ join' = [join EXCEPT ![n].pc = "set_sender",
                                           ![n].sub = Len(subs[n]) + 1]
              ELSE /\ subs' = subs
                   /\ bootstrap' = bootstrap
                   /\ join' = [join EXCEPT ![n] = JoinIdle("err")]
    /\ UNCHANGED <<appstate, store, gossip_sender, joins, injected, issued, handled>>
    /\ UNCHANGED <<clipVars, sent>>
    /\ UNCHANGED <<fsVars, sender_lock>>
    /\ UNCHANGED <<secret_key, setup_result, endpoint_key, starts, node_infos, emitted, window, cleanup,
                   watch_thread, fs_event>>

\* variant: the sender is not stored
SenderDropped(k, topic) == NoneOpt

\* the GossipSender half of subscription k
SenderOf(k, topic) == Some([topic |-> topic, sub |-> k])

\* join_gossip lines 114-144: gossip_sender is set under its lock, the receive
\* loop is spawned on the receiver and gossip-ready is emitted
JoinSetSender(n) ==
    /\ join[n].pc = "set_sender"
    /\ sender_lock[n] \in {Free, ByJoin}
    /\ sender_lock' = [sender_lock EXCEPT ![n] = Free]
    /\ LET k == join[n].sub
       IN  /\ gossip_sender' = [gossip_sender EXCEPT ![n] = SenderOf(k, subs[n][k].topic)]
           /\ subs' = [subs EXCEPT ![n][k].loop = State(n).blobs]
           /\ join' = [join EXCEPT ![n] =
                          JoinIdle(IF State(n).blobs THEN "ok" ELSE "err")]
           /\ emitted' = [emitted EXCEPT ![n] =
                             IF State(n).blobs THEN @ \cup {"gossip-ready"} ELSE @]
    /\ UNCHANGED <<appstate, store, gossip_topic, joins, injected, issued, handled>>
    /\ UNCHANGED <<clipVars, sent>>
    /\ UNCHANGED <<fsVars, topic_lock>>
    /\ UNCHANGED <<secret_key, setup_result, endpoint_key, starts, node_infos, window, cleanup,
                   watch_thread, address_book, bootstrap, fs_event>>

\* ------------------------------------------------------------ receive loop
\* a remote peer on the topic broadcasts a clipboard payload
RemoteClipboardPayloads ==
    { ClipboardToVec(ClipboardPayload(from, c)) : from \in Nodes, c \in {"x", "y"} }

InjectClipboard(n, k, bytes) ==
    /\ k \in 1..Len(subs[n])
    /\ injected[n] < MaxRemote
    /\ injected' = [injected EXCEPT ![n] = @ + 1]
    /\ subs' = [subs EXCEPT ![n][k].inbox = Append(@, bytes)]
    /\ UNCHANGED <<appstate, store, gossip_topic, gossip_sender, join, joins, issued, handled>>
    /\ UNCHANGED <<clipVars, sent>>
    /\ UNCHANGED fileVars
    /\ UNCHANGED bootVars

\* variant: the loop takes no further event once a download has failed
AtNextUnlessFailed(n, k) ==
    /\ k \in 1..Len(subs[n])
    /\ subs[n][k].loop
    /\ subs[n][k].pc = "next"
    /\ subs[n][k].inbox # <<>>
    /\ \A j \in 1..Len(downloads[n]) : downloads[n][j].result # "err"

\* the loop of subscription k is at receiver.next() with an event at hand
AtNext(n, k) ==
    /\ k \in 1..Len(subs[n])
    /\ subs[n][k].loop
    /\ subs[n][k].pc = "next"
    /\ subs[n][k].inbox # <<>>

\* variant: the origin of the payload is not compared with the local NodeId
ApplyRemoteAnyOrigin(n, clipboard_payload) ==
    /\ IsSome(State(n).endpoint)
    /\ SharingEnabled(n)
    /\ State(n).clipboard_monitor

\* subscribe_loop lines 204-234: whether a clipboard payload gets applied
ApplyRemote(n, clipboard_payload) ==
    /\ IsSome(State(n).endpoint)
    /\ clipboard_payload.from_node_id # Unwrap(State(n).endpoint)
    /\ SharingEnabled(n)
    /\ State(n).clipboard_monitor

\* subscribe_loop lines 204-234 with set_local_clipboard_content lines 56-72:
\* a Received event that parses as ClipboardPayload.  When it is to be applied
\* the clipboard is locked and written; the lock is kept for the update of
\* last_content.
RecvClipboard(n, k) ==
    /\ AtNext(n, k)
    /\ LET bytes == Head(subs[n][k].inbox)
           parsed == ClipboardFromBytes(bytes)
       IN  /\ IsSome(parsed)
           /\ IF ApplyRemote(n, Unwrap(parsed))
              THEN /\ clip_lock[n] = Free
                   /\ \E set_text_ok \in BOOLEAN :
                       IF set_text_ok
                       THEN /\ clipboard' = [clipboard EXCEPT ![n] = Unwrap(parsed).content]
                            /\ placed' = [placed EXCEPT ![n] = "none"]
                            /\ clip_lock' = [clip_lock EXCEPT ![n] = ByRecv(k)]
                            /\ subs' = [subs EXCEPT ![n][k].inbox = Tail(@),
                                                    ![n][k].pc = "lock_last",
                                                    ![n][k].content = Some(Unwrap(parsed).content)]
                       ELSE /\ subs' = [subs EXCEPT ![n][k].inbox = Tail(@)]
                            /\ UNCHANGED <<clipboard, clip_lock, placed>>
              ELSE /\ subs' = [subs EXCEPT ![n][k].inbox = Tail(@)]
                   /\ UNCHANGED <<clipboard, clip_lock, placed>>
    /\ handled' = [handled EXCEPT ![n] = Some(Head(subs[n][k].inbox))]
    /\ UNCHANGED <<appstate, store, gossip_topic, gossip_sender, join, joins, injected, issued>>
    /\ UNCHANGED <<last_content, last_lock, poller, copies, echo_guard, sent>>
    /\ UNCHANGED fileVars
    /\ UNCHANGED bootVars

\* set_local_clipboard_content lines 73-78: last_content is locked and set,
\* then both locks are released
RecvSetLast(n, k) ==
    /\ k \in 1..Len(subs[n])
    /\ subs[n][k].pc = "lock_last"
    /\ last_lock[n] \in {Free, ByRecv(k)}
    /\ last_lock' = [last_lock EXCEPT ![n] = Free]
    /\ last_content' = [last_content EXCEPT ![n] = Unwrap(subs[n][k].content)]
    /\ echo_guard' = [echo_guard EXCEPT ![n] = @ \cup {Unwrap(subs[n][k].content)}]
    /\ clip_lock' = [clip_lock EXCEPT ![n] = Free]
    /\ subs' = [subs EXCEPT ![n][k].pc = "next", ![n][k].content = NoneOpt]
    /\ UNCHANGED <<appstate, store, gossip_topic, gossip_sender, join, joins, injected, issued, handled>>
    /\ UNCHANGED <<clipboard, poller, copies, sent, placed>>
    /\ UNCHANGED fileVars
    /\ UNCHANGED bootVars


\* ------------------------------------------------------------ file watcher
\* MaxFsOps bounds the user's file operations per node.
UserPaths == { SyncFolder \o <<"docs", "hello.txt">>, SyncFolder \o <<"top.txt">> }

\* handle_watcher line 146: event.paths.get(0), or an empty PathBuf
FirstPath(paths) == IF paths = <<>> THEN <<>> ELSE paths[1]

\* what the notify watcher puts on the channel: events on paths below the
\* watched folder, while the watcher exists and the event loop holds the
\* receiver (start_watching lines 59-71: a failed send is printed and dropped)
Notify(n, events) ==
    IF watcher[n] = "running" /\ watch_thread[n] = "watching"
    THEN watch_q[n] \o SelectSeq(events, LAMBDA e :
             IsSome(StripPrefix(FirstPath(e.paths), SyncFolder))
             /\ FirstPath(e.paths) # SyncFolder)
    ELSE watch_q[n]

\* FsEventPayload: event_type and path
FsEventPayload(event_type, path) == <<event_type, path>>

\* notify::Event: its kind and its paths
Event(kind, paths) == [kind |-> kind, paths |-> paths]
NotifyEvent(kind, path) == Event(kind, <<path>>)

\* the Create events of the directories create_dir_all makes, outermost first
DirEvents(f, p) ==
    LET rp == Resolve(p)
        made == SelectSeq([i \in 1..Len(rp) |-> SubSeq(rp, 1, i)],
                          LAMBDA q : q \in MadeDirs(f, p))
    IN  [i \in 1..Len(made) |-> NotifyEvent("Create", made[i])]

\* handle_setup lines 60-91 with start_watching lines 44-114: the watcher
\* task creates the folder when it is missing, start_watching spawns the
\* watcher thread and returns the receiver, and the event loop starts
WatcherStart(n) ==
    /\ watcher[n] = "off"
    /\ IF Exists(fs[n], SyncFolder)
       THEN /\ fs' = fs
            /\ watcher' = [watcher EXCEPT ![n] = "running"]
            /\ watch_thread' = [watch_thread EXCEPT ![n] = "watching"]
       ELSE IF CreateDirAllOk(fs[n], SyncFolder)
            THEN /\ fs' = [fs EXCEPT ![n] = CreateDirAll(@, SyncFolder)]
                 /\ watcher' = [watcher EXCEPT ![n] = "running"]
                 /\ watch_thread' = [watch_thread EXCEPT ![n] = "watching"]
            ELSE /\ fs' = fs
                 /\ watcher' = [watcher EXCEPT ![n] = "dead"]
                 /\ watch_thread' = watch_thread
    /\ UNCHANGED <<coreVars, clipVars, sent>>
    /\ UNCHANGED <<watch_q, fs_tasks, fs_calls, sender_lock, topic_lock, blob_store, downloads, fsops>>
    /\ UNCHANGED <<secret_key, setup_result, endpoint_key, starts, node_infos, emitted, window, cleanup,
                   address_book, bootstrap, fs_event>>

\* start_watching lines 75-105: RecommendedWatcher::new or watcher.watch
\* fails before anything is reported; run_watcher returns the error, the
\* thread logs it and exits, and the handler with its sender is dropped
WatchThreadFails(n) ==
    /\ watch_thread[n] = "watching"
    /\ watcher[n] = "running"
    /\ fsops[n] = 0
    /\ watch_q[n] = <<>>
    /\ fs_tasks[n] = <<>>
    /\ watch_thread' = [watch_thread EXCEPT ![n] = "exited"]
    /\ UNCHANGED <<coreVars, clipVars, sent, fileVars>>
    /\ UNCHANGED <<secret_key, setup_result, endpoint_key, starts, node_infos, emitted, window, cleanup,
                   address_book, bootstrap, fs_event>>

\* start_watching lines 93-97: the thread sleeps five seconds and goes round
\* its loop; it looks at nothing
WatchThreadSleeps(n) ==
    /\ watch_thread[n] = "watching"
    /\ UNCHANGED vars

\* handle_watcher lines 213-225: recv fails because every sender is gone; a
\* last fs-event is emitted and the event loop ends, dropping the receiver
FsLoopEnds(n) ==
    /\ watcher[n] = "running"
    /\ watch_thread[n] = "exited"
    /\ watch_q[n] = <<>>
    /\ watcher' = [watcher EXCEPT ![n] = "dead"]
    /\ emitted' = [emitted EXCEPT ![n] = @ \cup {"fs-event"}]
    /\ fs_event' = [fs_event EXCEPT ![n] = Some(FsEventPayload("Other", <<>>))]
    /\ UNCHANGED <<coreVars, clipVars, sent>>
    /\ UNCHANGED <<fs, watch_q, fs_tasks, fs_calls, sender_lock, topic_lock, blob_store, downloads, fsops>>
    /\ UNCHANGED <<secret_key, setup_result, endpoint_key, starts, node_infos, window, cleanup,
                   watch_thread, address_book, bootstrap>>

\* the user writes a file: a new file raises Create, an existing one Modify
UserWrite(n, path, content) ==
    /\ fsops[n] < MaxFsOps
    /\ WriteOk(fs[n], path)
    /\ ~(IsFile(fs[n], path) /\ fs[n][path] = content)
    /\ fsops' = [fsops EXCEPT ![n] = @ + 1]
    /\ fs' = [fs EXCEPT ![n] = WriteFile(@, path, content)]
    /\ watch_q' = [watch_q EXCEPT ![n] =
           Notify(n, <<NotifyEvent(IF Exists(fs[n], path) THEN "ModifyData" ELSE "Create",
                                   path)>>)]
    /\ UNCHANGED <<coreVars, clipVars, sent>>
    /\ UNCHANGED <<watcher, fs_tasks, fs_calls, sender_lock, topic_lock, blob_store, downloads>>
    /\ UNCHANGED bootVars

\* the user deletes a file
UserRemove(n, path) ==
    /\ fsops[n] < MaxFsOps
    /\ IsFile(fs[n], path)
    /\ fsops' = [fsops EXCEPT ![n] = @ + 1]
    /\ fs' = [fs EXCEPT ![n] = RemoveFile(@, path)]
    /\ watch_q' = [watch_q EXCEPT ![n] = Notify(n, <<NotifyEvent("Remove", path)>>)]
    /\ UNCHANGED <<coreVars, clipVars, sent>>
    /\ UNCHANGED <<watcher, fs_tasks, fs_calls, sender_lock, topic_lock, blob_store, downloads>>
    /\ UNCHANGED bootVars

\* the notify backend reports something that is no creation, change or
\* removal of a file: an access to a file under the folder, or an error of
\* the watcher itself (an Err on the channel, which carries no path)
WatcherReports(n, kind, path) ==
    /\ watcher[n] = "running"
    /\ watch_thread[n] = "watching"
    /\ fsops[n] < MaxFsOps
    /\ fsops' = [fsops EXCEPT ![n] = @ + 1]
    /\ IF kind = "Error"
       THEN watch_q' = [watch_q EXCEPT ![n] = Append(@, Event("Error", <<>>))]
       ELSE /\ IsFile(fs[n], path)
            /\ watch_q' = [watch_q EXCEPT ![n] = Notify(n, <<NotifyEvent(kind, path)>>)]
    /\ UNCHANGED <<coreVars, clipVars, sent>>
    /\ UNCHANGED <<fs, watcher, fs_tasks, fs_calls, sender_lock, topic_lock, blob_store, downloads>>
    /\ UNCHANGED bootVars

\* variant: a rename of unknown direction counts as an appearance without a
\* look at the path
FsEventTypeNoStat(kind, exists) ==
    CASE kind = "Create" -> "Create"
      [] kind = "Remove" -> "Remove"
      [] kind \in {"ModifyData", "ModifyMetadata", "ModifyAny", "RenameBoth"} -> "Modify"
      [] kind \in {"RenameTo", "RenameAny"} -> "Create"
      [] kind = "RenameFrom" -> "Remove"
      [] kind = "Error" -> "Error"
      [] OTHER -> "Other"

\* handle_watcher lines 148-189 and 197-204: notify::EventKind, or the
\* watcher's error, to FsEventType; exists is path.exists() of the first path
FsEventType(kind, exists) ==
    CASE kind = "Create" -> "Create"
      [] kind = "Remove" -> "Remove"
      [] kind = "ModifyData" -> "Modify"
      [] kind = "ModifyMetadata" -> "Modify"
      [] kind = "RenameTo" -> "Create"
      [] kind = "RenameFrom" -> "Remove"
      [] kind = "RenameBoth" -> "Modify"
      [] kind = "RenameAny" -> IF exists THEN "Create" ELSE "Remove"
      [] kind = "RenameOther" -> "Other"
      [] kind = "ModifyAny" -> "Modify"
      [] kind = "ModifyOther" -> "Other"
      [] kind = "Access" -> "Other"
      [] kind = "Other" -> "Other"
      [] kind = "Error" -> "Error"
      [] OTHER -> "Other"

\* handle_watcher lines 136-205: the payload made of what the channel yields;
\* a watcher error carries no path
PayloadOf(f, event) ==
    IF event.kind = "Error"
    THEN FsEventPayload("Error", <<>>)
    ELSE FsEventPayload(FsEventType(event.kind, Exists(f, FirstPath(event.paths))),
                        FirstPath(event.paths))

\* variant: a changed file is announced like a new one
SpawnsTaskOnChange(event_type) == event_type \in {"Create", "Modify"}

\* handle_fs_payload lines 83-84 and 172-176: the match on the event type;
\* the Create arm alone spawns a task
SpawnsTask(event_type) == event_type = "Create"

\* a spawned task: the event path, then what the task reads as it runs: the
\* blob ticket, the topic, the sender behind the guard, the bytes it broadcasts
NewFsTask(path) == [topic |-> NoneOpt, pc |-> "import", ticket |-> NoneOpt,
                    path |-> path, msg |-> NoneOpt, via |-> NoneOpt]

\* variant: the dispatcher leaves out the paths the receive path has exported
FsDispatchOwnSkipped(n) ==
    /\ watcher[n] = "running"
    /\ watch_q[n] # <<>>
    /\ watch_q' = [watch_q EXCEPT ![n] = Tail(@)]
    /\ LET payload == PayloadOf(fs[n], Head(watch_q[n]))
       IN  IF ~Managed(n)
           THEN /\ watcher' = [watcher EXCEPT ![n] = "dead"]
                /\ fs_tasks' = fs_tasks
                /\ emitted' = emitted
                /\ fs_event' = fs_event
           ELSE /\ watcher' = watcher
                /\ emitted' = [emitted EXCEPT ![n] = @ \cup {"fs-event"}]
                /\ fs_event' = [fs_event EXCEPT ![n] = Some(payload)]
                /\ IF SpawnsTask(payload[1])
                      /\ ~\E d \in 1..Len(downloads[n]) :
                            /\ downloads[n][d].result = "ok"
                            /\ Resolve(PathJoin(SyncFolder, PathFromString(
                                   downloads[n][d].payload.relative_path))) = payload[2]
                   THEN fs_tasks' = [fs_tasks EXCEPT ![n] = Append(@, NewFsTask(payload[2]))]
                   ELSE fs_tasks' = fs_tasks
    /\ UNCHANGED <<coreVars, clipVars, sent>>
    /\ UNCHANGED <<fs, fs_calls, sender_lock, topic_lock, blob_store, downloads, fsops>>
    /\ UNCHANGED <<secret_key, setup_result, endpoint_key, starts, node_infos, window, cleanup, watch_thread, address_book, bootstrap>>

\* handle_watcher lines 132-212 with handle_fs_payload lines 80-94 and
\* 171-176: one event is taken from the channel; Create spawns a task, Remove
\* and the other types do nothing; handle.state() panics while AppState is
\* not managed, which ends the event loop; otherwise fs-event is emitted
FsDispatch(n) ==
    /\ watcher[n] = "running"
    /\ watch_q[n] # <<>>
    /\ watch_q' = [watch_q EXCEPT ![n] = Tail(@)]
    /\ LET payload == PayloadOf(fs[n], Head(watch_q[n]))
       IN  IF ~Managed(n)
           THEN /\ watcher' = [watcher EXCEPT ![n] = "dead"]
                /\ fs_tasks' = fs_tasks
                /\ emitted' = emitted
                /\ fs_event' = fs_event
           ELSE /\ watcher' = watcher
                /\ emitted' = [emitted EXCEPT ![n] = @ \cup {"fs-event"}]
                /\ fs_event' = [fs_event EXCEPT ![n] = Some(payload)]
                /\ IF SpawnsTask(payload[1])
                   THEN fs_tasks' = [fs_tasks EXCEPT ![n] = Append(@, NewFsTask(payload[2]))]
                   ELSE fs_tasks' = fs_tasks
    /\ UNCHANGED <<coreVars, clipVars, sent>>
    /\ UNCHANGED <<fs, fs_calls, sender_lock, topic_lock, blob_store, downloads, fsops>>
    /\ UNCHANGED <<secret_key, setup_result, endpoint_key, starts, node_infos, window, cleanup, watch_thread, address_book, bootstrap>>

\* the blob add_from_path makes of a path: a file's content, or for a
\* directory the hash sequence of its collection
HashSeq == "<hashseq>"
ImportedBlob(f, path) == IF IsDir(f, path) THEN HashSeq ELSE f[Resolve(path)]

FsTaskAt(n, i, pc) == i \in 1..Len(fs_tasks[n]) /\ fs_tasks[n][i].pc = pc

\* handle_fs_payload lines 95-116 with create_iroh_ticket: endpoint and blobs
\* are checked, the path is imported and a blob ticket naming this node made
FsImport(n, i) ==
    /\ FsTaskAt(n, i, "import")
    /\ LET path == fs_tasks[n][i].path
       IN  IF IsSome(State(n).endpoint) /\ State(n).blobs /\ Exists(fs[n], path)
           THEN /\ blob_store' = [blob_store EXCEPT ![n] = @ \cup {ImportedBlob(fs[n], path)}]
                /\ fs_tasks' = [fs_tasks EXCEPT ![n][i].pc = "read_topic",
                       ![n][i].ticket = Some(BlobTicketString(Unwrap(State(n).endpoint),
                                                 Hash(ImportedBlob(fs[n], path))))]
           ELSE /\ blob_store' = blob_store
                /\ fs_tasks' = [fs_tasks EXCEPT ![n][i].pc = "done"]
    /\ UNCHANGED <<coreVars, clipVars, sent>>
    /\ UNCHANGED <<fs, watcher, watch_q, fs_calls, sender_lock, topic_lock, downloads, fsops>>
    /\ UNCHANGED bootVars

\* variant: a task that finds no active topic announces on the first topic
FsReadTopicDefault(n, i) ==
    /\ FsTaskAt(n, i, "read_topic")
    /\ topic_lock[n] \in {Free, ByFs(i)}
    /\ topic_lock' = [topic_lock EXCEPT ![n] = Free]
    /\ fs_tasks' = [fs_tasks EXCEPT ![n][i].pc = "lock_sender",
                       ![n][i].topic = IF IsSome(gossip_topic[n]) THEN gossip_topic[n]
                                       ELSE Some("t1")]
    /\ UNCHANGED <<coreVars, clipVars, sent>>
    /\ UNCHANGED <<fs, watcher, watch_q, fs_calls, sender_lock, blob_store, downloads, fsops>>
    /\ UNCHANGED bootVars

\* handle_fs_payload lines 118-128: gossip_topic is read under its lock
FsReadTopic(n, i) ==
    /\ FsTaskAt(n, i, "read_topic")
    /\ topic_lock[n] \in {Free, ByFs(i)}
    /\ topic_lock' = [topic_lock EXCEPT ![n] = Free]
    /\ IF IsSome(gossip_topic[n])
       THEN fs_tasks' = [fs_tasks EXCEPT ![n][i].pc = "lock_sender",
                                         ![n][i].topic = gossip_topic[n]]
       ELSE fs_tasks' = [fs_tasks EXCEPT ![n][i].pc = "done"]
    /\ UNCHANGED <<coreVars, clipVars, sent>>
    /\ UNCHANGED <<fs, watcher, watch_q, fs_calls, sender_lock, blob_store, downloads, fsops>>
    /\ UNCHANGED bootVars

\* handle_fs_payload lines 132-154: the announcement of a created path
Announcement(n, task) ==
    LET relative_path == StripPrefix(task.path, SyncFolder)
        file_name == PathFileName(task.path)
    IN  IF IsSome(relative_path) /\ IsSome(file_name)
        THEN Some(GossipEventPayload(Unwrap(State(n).endpoint), Unwrap(task.topic),
                                     Unwrap(file_name),
                                     PathToString(Unwrap(relative_path)),
                                     Unwrap(task.ticket)))
        ELSE NoneOpt

\* handle_fs_payload lines 130-156: gossip_sender is locked; with a sender the
\* announcement is built and sender.broadcast is called, the lock being held
\* until the call returns
FsLockSender(n, i) ==
    /\ FsTaskAt(n, i, "lock_sender")
    /\ sender_lock[n] = Free
    /\ LET msg == Announcement(n, fs_tasks[n][i])
       IN  IF IsSome(gossip_sender[n]) /\ IsSome(msg)
           THEN /\ fs_tasks' = [fs_tasks EXCEPT ![n][i].pc = "broadcast",
                                                ![n][i].msg = Some(FileToVec(Unwrap(msg))),
                                                ![n][i].via = gossip_sender[n]]
                /\ fs_calls' = [fs_calls EXCEPT ![n] =
                       Append(@, [bytes |-> FileToVec(Unwrap(msg)), task |-> i])]
                /\ sender_lock' = [sender_lock EXCEPT ![n] = ByFs(i)]
           ELSE /\ fs_tasks' = [fs_tasks EXCEPT ![n][i].pc = "done",
                                                ![n][i].via = gossip_sender[n]]
                /\ UNCHANGED <<fs_calls, sender_lock>>
    /\ UNCHANGED <<coreVars, clipVars, sent>>
    /\ UNCHANGED <<fs, watcher, watch_q, topic_lock, blob_store, downloads, fsops>>
    /\ UNCHANGED bootVars

\* variant: a failed broadcast sends the task back to take the sender again
FsBroadcastRetried(n, i, ok) ==
    /\ FsTaskAt(n, i, "broadcast")
    /\ LET bytes == Unwrap(fs_tasks[n][i].msg)
           topic == Unwrap(fs_tasks[n][i].via).topic
       IN  IF ok
           THEN /\ sent' = [sent EXCEPT ![n] = Append(@, bytes)]
                /\ subs' = Deliver(subs, n, topic, bytes)
           ELSE UNCHANGED <<sent, subs>>
    /\ fs_tasks' = [fs_tasks EXCEPT ![n][i].pc = IF ok THEN "done" ELSE "lock_sender"]
    /\ sender_lock' = [sender_lock EXCEPT ![n] = Free]
    /\ UNCHANGED <<appstate, store, gossip_topic, gossip_sender, join, joins, injected, issued, handled>>
    /\ UNCHANGED clipVars
    /\ UNCHANGED <<fs, watcher, watch_q, fs_calls, topic_lock, blob_store, downloads, fsops>>
    /\ UNCHANGED bootVars

\* handle_fs_payload lines 156-161: sender.broadcast returns, Ok or Err; the
\* guard is dropped
FsBroadcast(n, i, ok) ==
    /\ FsTaskAt(n, i, "broadcast")
    /\ LET bytes == Unwrap(fs_tasks[n][i].msg)
           topic == Unwrap(fs_tasks[n][i].via).topic
       IN  IF ok
           THEN /\ sent' = [sent EXCEPT ![n] = Append(@, bytes)]
                /\ subs' = Deliver(subs, n, topic, bytes)
           ELSE UNCHANGED <<sent, subs>>
    /\ fs_tasks' = [fs_tasks EXCEPT ![n][i].pc = "done"]
    /\ sender_lock' = [sender_lock EXCEPT ![n] = Free]
    /\ UNCHANGED <<appstate, store, gossip_topic, gossip_sender, join, joins, injected, issued, handled>>
    /\ UNCHANGED clipVars
    /\ UNCHANGED <<fs, watcher, watch_q, fs_calls, topic_lock, blob_store, downloads, fsops>>
    /\ UNCHANGED bootVars

\* ------------------------------------------------- receive loop: file sync
\* A peer outside the model, its blob store, and the announcements it sends:
\* plain ones, one that names this node as its origin, ones whose
\* relative_path leaves the sync folder, ones whose ticket cannot be fetched
\* or parsed.
Remote == "R"
RemoteStore == {"hi", "yo"}
Gone == Hash("gone")

RemoteFile(from, relative_path, message_content) ==
    FileToVec(GossipEventPayload(from, "t1", relative_path[Len(relative_path)],
                                 relative_path, message_content))

RemoteFilePayloads(n) ==
    { RemoteFile(Remote, <<"docs", "/", "hello.txt">>, BlobTicketString(Remote, Hash("hi"))),
      RemoteFile(Remote, <<"docs", "/", "hello.txt">>, BlobTicketString(Remote, Hash("yo"))),
      RemoteFile(Remote, <<"docs">>, BlobTicketString(Remote, Hash("hi"))),
      RemoteFile(n, <<"top.txt">>, BlobTicketString(Remote, Hash("hi"))),
      RemoteFile(Remote, <<"..", "/", "x.txt">>, BlobTicketString(Remote, Hash("hi"))),
      RemoteFile(Remote, <<"/", "etc", "/", "x.txt">>, BlobTicketString(Remote, Hash("hi"))),
      RemoteFile(Remote, <<"top.txt">>, BlobTicketString(Remote, Gone)),
      RemoteFile(Remote, <<"top.txt">>, BadBlobTicket) }

InjectFile(n, k, bytes) ==
    /\ k \in 1..Len(subs[n])
    /\ injected[n] < MaxRemote
    /\ injected' = [injected EXCEPT ![n] = @ + 1]
    /\ subs' = [subs EXCEPT ![n][k].inbox = Append(@, bytes)]
    /\ UNCHANGED <<appstate, store, gossip_topic, gossip_sender, join, joins, issued, handled>>
    /\ UNCHANGED <<clipVars, sent>>
    /\ UNCHANGED fileVars
    /\ UNCHANGED bootVars

NewDownload(file_payload) == [pc |-> "prepare", result |-> "none",
                              ticket |-> NoneOpt, payload |-> file_payload]

\* subscribe_loop lines 235-244: a Received event that does not parse as
\* ClipboardPayload and parses as GossipEventPayload: gossip://message is
\* emitted and the download task is spawned
RecvFile(n, k) ==
    /\ AtNext(n, k)
    /\ LET bytes == Head(subs[n][k].inbox)
       IN  /\ ClipboardFromBytes(bytes) = NoneOpt
           /\ IsSome(FileFromBytes(bytes))
           /\ downloads' = [downloads EXCEPT ![n] =
                  Append(@, NewDownload(Unwrap(FileFromBytes(bytes))))]
           /\ handled' = [handled EXCEPT ![n] = Some(bytes)]
    /\ emitted' = [emitted EXCEPT ![n] = @ \cup {"gossip://message"}]
    /\ subs' = [subs EXCEPT ![n][k].inbox = Tail(@)]
    /\ UNCHANGED <<appstate, store, gossip_topic, gossip_sender, join, joins, injected, issued>>
    /\ UNCHANGED <<clipVars, sent>>
    /\ UNCHANGED <<fs, watcher, watch_q, fs_tasks, fs_calls, sender_lock, topic_lock, blob_store, fsops>>
    /\ UNCHANGED <<secret_key, setup_result, endpoint_key, starts, node_infos, window, cleanup, watch_thread, address_book, bootstrap, fs_event>>

\* payloads that are neither a ClipboardPayload nor a GossipEventPayload:
\* bytes that are no JSON object, and objects that lack a field
UndecodablePayloads ==
    { [raw |-> "garbage"],
      [content |-> "x"],
      [from |-> Remote, topic |-> "t1", file_name |-> "a.txt",
       relative_path |-> <<"a.txt">>] }

\* variant: the loop ends on a payload it cannot decode
DiscardAndStop(sub) == [sub EXCEPT !.inbox = Tail(@), !.loop = FALSE]

\* subscribe_loop lines 265-270: the event is logged and dropped and the loop
\* goes back to receiver.next()
Discard(sub) == [sub EXCEPT !.inbox = Tail(@)]

\* what receiver.next() yields besides Received events: the other events of
\* the topic, an error of the stream, and the end of the stream
StreamEnd == [event |-> "End"]
StreamError == [event |-> "Error"]
StreamEvents == { [event |-> e] : e \in {"NeighborUp", "NeighborDown", "Lagged"} }
                    \cup {StreamError, StreamEnd}

\* the item is a Received event: the bytes of a payload
IsReceived(item) == "event" \notin DOMAIN item

\* subscribe_loop lines 204, 235, 265-270: a Received event that parses as
\* neither payload type
RecvOther(n, k) ==
    /\ AtNext(n, k)
    /\ IsReceived(Head(subs[n][k].inbox))
    /\ LET bytes == Head(subs[n][k].inbox)
       IN  /\ ClipboardFromBytes(bytes) = NoneOpt
           /\ FileFromBytes(bytes) = NoneOpt
           /\ handled' = [handled EXCEPT ![n] = Some(bytes)]
    /\ subs' = [subs EXCEPT ![n][k] = Discard(@)]
    /\ UNCHANGED <<appstate, store, gossip_topic, gossip_sender, join, joins, injected, issued>>
    /\ UNCHANGED <<clipVars, sent>>
    /\ UNCHANGED fileVars
    /\ UNCHANGED bootVars

\* the stream of subscription k can still yield items
StreamOpen(n, k) ==
    /\ k \in 1..Len(subs[n])
    /\ subs[n][k].pc # "finished"
    /\ \A i \in 1..Len(subs[n][k].inbox) : subs[n][k].inbox[i] # StreamEnd

\* the gossip receiver yields an event that is no payload, an error, or ends
InjectEvent(n, k, item) ==
    /\ StreamOpen(n, k)
    /\ injected[n] < MaxRemote
    /\ injected' = [injected EXCEPT ![n] = @ + 1]
    /\ subs' = [subs EXCEPT ![n][k].inbox = Append(@, item)]
    /\ UNCHANGED <<appstate, store, gossip_topic, gossip_sender, join, joins, issued, handled>>
    /\ UNCHANGED <<clipVars, sent>>
    /\ UNCHANGED fileVars
    /\ UNCHANGED bootVars

\* variant: an error of the stream ends the loop as the end of the stream does
StreamItemEndsOnError(item) == item \in {StreamEnd, StreamError}

\* subscribe_loop line 189: `while let Some(result) = receiver.next().await`
\* leaves the loop when the stream yields None
StreamItemEnds(item) == item = StreamEnd

\* subscribe_loop lines 272-295: the UI event of a stream item that is no
\* Received event; errors and the other events are logged only
EventEmits(item) ==
    CASE item.event = "NeighborUp" -> {"gossip://neighbor-up"}
      [] item.event = "NeighborDown" -> {"gossip://neighbor-down"}
      [] OTHER -> {}

\* subscribe_loop lines 189, 272-299: receiver.next() yields an item that is
\* no Received event; at the end of the stream the loop returns Ok(())
RecvEvent(n, k) ==
    /\ AtNext(n, k)
    /\ ~IsReceived(Head(subs[n][k].inbox))
    /\ LET item == Head(subs[n][k].inbox)
       IN  IF StreamItemEnds(item)
           THEN /\ subs' = [subs EXCEPT ![n][k].inbox = Tail(@), ![n][k].loop = FALSE,
                                        ![n][k].pc = "finished"]
                /\ UNCHANGED <<handled, emitted>>
           ELSE /\ subs' = [subs EXCEPT ![n][k] = Discard(@)]
                /\ handled' = [handled EXCEPT ![n] = Some(item)]
                /\ emitted' = [emitted EXCEPT ![n] = @ \cup EventEmits(item)]
    /\ UNCHANGED <<appstate, store, gossip_topic, gossip_sender, join, joins, injected, issued>>
    /\ UNCHANGED <<clipVars, sent>>
    /\ UNCHANGED fileVars
    /\ UNCHANGED <<secret_key, setup_result, endpoint_key, starts, node_infos, window, cleanup, watch_thread, address_book, bootstrap, fs_event>>

\* variant: the file is placed in the sync folder under its file_name
DestPathFlat(file_payload) == Append(SyncFolder, file_payload.file_name)

\* subscribe_loop line 246: sync_path.join(&file_payload.relative_path)
DestPath(file_payload) == PathJoin(SyncFolder, PathFromString(file_payload.relative_path))

\* subscribe_loop lines 247-255 and get_iroh_blob lines 23-27:
\* if the destination has a parent that does not exist, create_dir_all(parent)
NeedsParent(f, dest) ==
    IsSome(PathParent(dest)) /\ ~Exists(f, Unwrap(PathParent(dest)))

EnsureParentOk(f, dest) ==
    NeedsParent(f, dest) => CreateDirAllOk(f, Unwrap(PathParent(dest)))

\* variant: no directory is made
EnsureParentSkipped(f, dest) == f

EnsureParent(f, dest) ==
    IF NeedsParent(f, dest) THEN CreateDirAll(f, Unwrap(PathParent(dest))) ELSE f

EnsureParentEvents(f, dest) ==
    IF NeedsParent(f, dest) THEN DirEvents(f, Unwrap(PathParent(dest))) ELSE <<>>

DlAt(n, j, pc) == j \in 1..Len(downloads[n]) /\ downloads[n][j].pc = pc

\* subscribe_loop lines 245-256 and get_iroh_blob lines 19-27, the task up to
\* its first await: the parent directory is made, the ticket is parsed, the
\* parent directory is looked at again
DlPrepare(n, j) ==
    /\ DlAt(n, j, "prepare")
    /\ LET dest == DestPath(downloads[n][j].payload)
           ticket == BlobTicketFromStr(downloads[n][j].payload.message_content)
           made == EnsureParent(fs[n], dest)
       IN  /\ fs' = [fs EXCEPT ![n] = EnsureParent(made, dest)]
           /\ watch_q' = [watch_q EXCEPT ![n] = Notify(n, EnsureParentEvents(fs[n], dest))]
           /\ IF EnsureParentOk(fs[n], dest) /\ IsSome(ticket) /\ EnsureParentOk(made, dest)
              THEN downloads' = [downloads EXCEPT ![n][j].pc = "download",
                                                  ![n][j].ticket = ticket]
              ELSE downloads' = [downloads EXCEPT ![n][j].pc = "done",
                                                  ![n][j].result = "err"]
    /\ UNCHANGED <<coreVars, clipVars, sent>>
    /\ UNCHANGED <<watcher, fs_tasks, fs_calls, sender_lock, topic_lock, blob_store, fsops>>
    /\ UNCHANGED bootVars

\* the blob store of the node a ticket names
ProviderStore(node_id) == IF node_id \in Nodes THEN blob_store[node_id] ELSE RemoteStore

\* the content with the given hash in a store, if it is there
Lookup(stored, hash) ==
    IF \E c \in stored : Hash(c) = hash
    THEN Some(CHOOSE c \in stored : Hash(c) = hash)
    ELSE NoneOpt

\* get_iroh_blob lines 29-32: the blob is fetched from the ticket's node into
\* the local store unless it is there already
DlDownload(n, j) ==
    /\ DlAt(n, j, "download")
    /\ LET ticket == Unwrap(downloads[n][j].ticket)
           found == Lookup(blob_store[n] \cup ProviderStore(ticket.node), ticket.hash)
       IN  IF IsSome(found)
           THEN /\ blob_store' = [blob_store EXCEPT ![n] = @ \cup {Unwrap(found)}]
                /\ downloads' = [downloads EXCEPT ![n][j].pc = "export"]
           ELSE /\ blob_store' = blob_store
                /\ downloads' = [downloads EXCEPT ![n][j].pc = "done",
                                                  ![n][j].result = "err"]
    /\ UNCHANGED <<coreVars, clipVars, sent>>
    /\ UNCHANGED <<fs, watcher, watch_q, fs_tasks, fs_calls, sender_lock, topic_lock, fsops>>
    /\ UNCHANGED bootVars

\* the blob store's export in ExportMode::Copy: the parent directories are
\* made and the content is written over whatever file is there
ExportOk(f, dest) ==
    /\ IsSome(PathParent(dest))
    /\ CreateDirAllOk(f, Unwrap(PathParent(dest)))
    /\ WriteOk(CreateDirAll(f, Unwrap(PathParent(dest))), dest)

Export(f, dest, content) ==
    WriteFile(CreateDirAll(f, Unwrap(PathParent(dest))), dest, content)

\* get_iroh_blob lines 34-44: the blob is exported to the destination
DlExport(n, j) ==
    /\ DlAt(n, j, "export")
    /\ LET dest == DestPath(downloads[n][j].payload)
           content == Unwrap(Lookup(blob_store[n], Unwrap(downloads[n][j].ticket).hash))
       IN  IF ExportOk(fs[n], dest)
           THEN /\ fs' = [fs EXCEPT ![n] = Export(@, dest, content)]
                /\ watch_q' = [watch_q EXCEPT ![n] =
                       Notify(n, DirEvents(fs[n], Unwrap(PathParent(dest)))
                                 \o <<NotifyEvent(IF Exists(fs[n], dest) THEN "ModifyData"
                                                  ELSE "Create", Resolve(dest))>>)]
                /\ downloads' = [downloads EXCEPT ![n][j].pc = "done",
                                                  ![n][j].result = "ok"]
           ELSE /\ UNCHANGED <<fs, watch_q>>
                /\ downloads' = [downloads EXCEPT ![n][j].pc = "done",
                                                  ![n][j].result = "err"]
    /\ UNCHANGED <<coreVars, clipVars, sent>>
    /\ UNCHANGED <<watcher, fs_tasks, fs_calls, sender_lock, topic_lock, blob_store, fsops>>
    /\ UNCHANGED bootVars

\* ----------------------------------------------------------- process life
\* a secret_key file placed in the data directory before the first start:
\* a key, a file one byte short and a file one byte long
SeedFiles == {Key(1), SubSeq(Key(1), 1, KeyLen - 1), Append(Key(1), 0)}

SeedSecretKey(n, bytes) ==
    /\ secret_key[n] = NoneOpt
    /\ setup_result[n] = "none"
    /\ secret_key' = [secret_key EXCEPT ![n] = Some(bytes)]
    /\ UNCHANGED <<coreVars, clipVars, sent, fileVars>>
    /\ UNCHANGED <<setup_result, endpoint_key, starts, node_infos, emitted, window, cleanup, watch_thread, address_book, bootstrap, fs_event>>

\* get_node_info lines 12-20: the node id of the endpoint in AppState
get_node_info(n) ==
    /\ Managed(n)
    /\ IsSome(State(n).endpoint)
    /\ node_infos' = [node_infos EXCEPT ![n] =
           @ \cup {<<starts[n], PublicKey(Unwrap(endpoint_key[n]))>>}]
    /\ UNCHANGED <<coreVars, clipVars, sent, fileVars>>
    /\ UNCHANGED <<secret_key, setup_result, endpoint_key, starts, emitted, window, cleanup, watch_thread, address_book, bootstrap, fs_event>>

\* the process ends and is started again: what lives in memory (AppState,
\* the tasks, the subscriptions, the locks, the channels) is gone; the config
\* store, the data directory, the disk, the blob store and the system
\* clipboard stay
Restart(n) ==
    /\ setup_result[n] # "none"
    /\ appstate' = [appstate EXCEPT ![n] = NoneOpt]
    /\ gossip_topic' = [gossip_topic EXCEPT ![n] = NoneOpt]
    /\ gossip_sender' = [gossip_sender EXCEPT ![n] = NoneOpt]
    /\ join' = [join EXCEPT ![n] = JoinIdle("none")]
    /\ subs' = [subs EXCEPT ![n] = <<>>]
    /\ handled' = [handled EXCEPT ![n] = NoneOpt]
    /\ last_content' = [last_content EXCEPT ![n] = ""]
    /\ clip_lock' = [clip_lock EXCEPT ![n] = Free]
    /\ last_lock' = [last_lock EXCEPT ![n] = Free]
    /\ poller' = [poller EXCEPT ![n] = [topic |-> NoneOpt, pc |-> "off",
                                        sender |-> NoneOpt, text |-> NoneOpt]]
    /\ watcher' = [watcher EXCEPT ![n] = "off"]
    /\ watch_q' = [watch_q EXCEPT ![n] = <<>>]
    /\ fs_tasks' = [fs_tasks EXCEPT ![n] = <<>>]
    /\ fs_calls' = [fs_calls EXCEPT ![n] = <<>>]
    /\ sender_lock' = [sender_lock EXCEPT ![n] = Free]
    /\ downloads' = [downloads EXCEPT ![n] = <<>>]
    /\ setup_result' = [setup_result EXCEPT ![n] = "none"]
    /\ endpoint_key' = [endpoint_key EXCEPT ![n] = NoneOpt]
    /\ emitted' = [emitted EXCEPT ![n] = {}]
    /\ window' = [window EXCEPT ![n] = "open"]
    /\ cleanup' = [cleanup EXCEPT ![n] = "off"]
    /\ watch_thread' = [watch_thread EXCEPT ![n] = "off"]
    /\ address_book' = [address_book EXCEPT ![n] = {}]
    /\ bootstrap' = [bootstrap EXCEPT ![n] = <<>>]
    /\ fs_event' = [fs_event EXCEPT ![n] = NoneOpt]
    /\ placed' = [placed EXCEPT ![n] = IF @ \in {"reading", "quiet_stale"} THEN "quiet" ELSE @]
    /\ UNCHANGED <<store, joins, injected, issued, clipboard, copies, echo_guard, sent>>
    /\ topic_lock' = [topic_lock EXCEPT ![n] = Free]
    /\ UNCHANGED <<fs, blob_store, fsops, secret_key, starts, node_infos>>

\* ---------------------------------------------------------------- shutdown
\* lib.rs lines 76-86: the window reports CloseRequested; the close is
\* prevented and the cleanup task is spawned
CloseRequested(n) ==
    /\ window[n] = "open"
    /\ cleanup[n] \in {"off", "panicked"}
    /\ cleanup' = [cleanup EXCEPT ![n] = "state"]
    /\ UNCHANGED <<coreVars, clipVars, sent, fileVars>>
    /\ UNCHANGED <<secret_key, setup_result, endpoint_key, starts, node_infos, emitted, window, watch_thread, address_book, bootstrap, fs_event>>

\* lib.rs lines 89-96: app_handle.state::<AppState>() panics while no
\* AppState is managed, which ends the task; otherwise the state is locked
ShutLock(n) ==
    /\ cleanup[n] = "state"
    /\ cleanup' = [cleanup EXCEPT ![n] = IF Managed(n) THEN "sync" ELSE "panicked"]
    /\ UNCHANGED <<coreVars, clipVars, sent, fileVars>>
    /\ UNCHANGED <<secret_key, setup_result, endpoint_key, starts, node_infos, emitted, window, watch_thread, address_book, bootstrap, fs_event>>

\* lib.rs lines 99-109: the sync task, if there is one, is aborted and awaited
\* for at most two seconds; whether it stopped in time is only logged
ShutAbortSync(n, stopped) ==
    /\ cleanup[n] = "sync"
    /\ appstate' = [appstate EXCEPT ![n] = Some([State(n) EXCEPT !.sync_task_handle = NoneOpt])]
    /\ cleanup' = [cleanup EXCEPT ![n] = "router"]
    /\ UNCHANGED <<store, gossip_topic, gossip_sender, join, joins, subs, injected, issued, handled>>
    /\ UNCHANGED <<clipVars, sent, fileVars>>
    /\ UNCHANGED <<secret_key, setup_result, endpoint_key, starts, node_infos, emitted, window, watch_thread, address_book, bootstrap, fs_event>>

\* lib.rs lines 114-117: router.shutdown().await.expect(..): an error of the
\* shutdown panics, which ends the task
RouterShutdown(present, ok) == IF present /\ ~ok THEN "panicked" ELSE "endpoint"

\* lib.rs lines 111-122: the router is taken out of the state and shut down
ShutRouter(n, ok) ==
    /\ cleanup[n] = "router"
    /\ appstate' = [appstate EXCEPT ![n] = Some([State(n) EXCEPT !.router = FALSE])]
    /\ cleanup' = [cleanup EXCEPT ![n] = RouterShutdown(State(n).router, ok)]
    /\ UNCHANGED <<store, gossip_topic, gossip_sender, join, joins, subs, injected, issued, handled>>
    /\ UNCHANGED <<clipVars, sent, fileVars>>
    /\ UNCHANGED <<secret_key, setup_result, endpoint_key, starts, node_infos, emitted, window, watch_thread, address_book, bootstrap, fs_event>>

\* lib.rs lines 124-131: the endpoint is taken out of the state and closed
ShutEndpoint(n) ==
    /\ cleanup[n] = "endpoint"
    /\ appstate' = [appstate EXCEPT ![n] = Some([State(n) EXCEPT !.endpoint = NoneOpt])]
    /\ cleanup' = [cleanup EXCEPT ![n] = "clear"]
    /\ UNCHANGED <<store, gossip_topic, gossip_sender, join, joins, subs, injected, issued, handled>>
    /\ UNCHANGED <<clipVars, sent, fileVars>>
    /\ UNCHANGED <<secret_key, setup_result, endpoint_key, starts, node_infos, emitted, window, watch_thread, address_book, bootstrap, fs_event>>

\* lib.rs lines 133-144: the protocol handles are cleared, the lock is
\* released and the window is closed
ShutClose(n) ==
    /\ cleanup[n] = "clear"
    /\ appstate' = [appstate EXCEPT ![n] =
           Some([State(n) EXCEPT !.blobs = FALSE, !.gossip = FALSE])]
    /\ window' = [window EXCEPT ![n] = "closed"]
    /\ cleanup' = [cleanup EXCEPT ![n] = "done"]
    /\ UNCHANGED <<store, gossip_topic, gossip_sender, join, joins, subs, injected, issued, handled>>
    /\ UNCHANGED <<clipVars, sent, fileVars>>
    /\ UNCHANGED <<secret_key, setup_result, endpoint_key, starts, node_infos, emitted, watch_thread, address_book, bootstrap, fs_event>>

\* ------------------------------------------------------------------- init
\* The disks at start: every node has its sync folder, node A's holds a
\* directory docs.
InitFs(n) ==
    IF n = "A"
    THEN (RootDir :> Dir) @@ (SyncFolder :> Dir) @@ (Append(SyncFolder, "docs") :> Dir)
    ELSE (RootDir :> Dir) @@ (SyncFolder :> Dir)

Init ==
    /\ appstate = [n \in Nodes |-> NoneOpt]
    /\ store = [n \in Nodes |-> [sharing |-> "unset", topic_id |-> NoneOpt]]
    /\ gossip_topic = [n \in Nodes |-> NoneOpt]
    /\ gossip_sender = [n \in Nodes |-> NoneOpt]
    /\ join = [n \in Nodes |-> JoinIdle("none")]
    /\ joins = [n \in Nodes |-> 0]
    /\ subs = [n \in Nodes |-> <<>>]
    /\ injected = [n \in Nodes |-> 0]
    /\ issued = {}
    /\ handled = [n \in Nodes |-> NoneOpt]
    /\ clipboard = [n \in Nodes |-> NonText]
    /\ last_content = [n \in Nodes |-> ""]
    /\ clip_lock = [n \in Nodes |-> Free]
    /\ last_lock = [n \in Nodes |-> Free]
    /\ poller = [n \in Nodes |-> [topic |-> NoneOpt, pc |-> "off", sender |-> NoneOpt,
                                  text |-> NoneOpt]]
    /\ copies = [n \in Nodes |-> 0]
    /\ echo_guard = [n \in Nodes |-> {}]
    /\ placed = [n \in Nodes |-> "none"]
    /\ sent = [n \in Nodes |-> <<>>]
    /\ fs = [n \in Nodes |-> InitFs(n)]
    /\ watcher = [n \in Nodes |-> "off"]
    /\ watch_q = [n \in Nodes |-> <<>>]
    /\ fs_tasks = [n \in Nodes |-> <<>>]
    /\ fs_calls = [n \in Nodes |-> <<>>]
    /\ sender_lock = [n \in Nodes |-> Free]
    /\ topic_lock = [n \in Nodes |-> Free]
    /\ blob_store = [n \in Nodes |-> {}]
    /\ downloads = [n \in Nodes |-> <<>>]
    /\ fsops = [n \in Nodes |-> 0]
    /\ secret_key = [n \in Nodes |-> NoneOpt]
    /\ setup_result = [n \in Nodes |-> "none"]
    /\ endpoint_key = [n \in Nodes |-> NoneOpt]
    /\ starts = [n \in Nodes |-> 0]
    /\ node_infos = [n \in Nodes |-> {}]
    /\ emitted = [n \in Nodes |-> {}]
    /\ window = [n \in Nodes |-> "open"]
    /\ cleanup = [n \in Nodes |-> "off"]
    /\ watch_thread = [n \in Nodes |-> "off"]
    /\ address_book = [n \in Nodes |-> {}]
    /\ bootstrap = [n \in Nodes |-> <<>>]
    /\ fs_event = [n \in Nodes |-> NoneOpt]

\* ------------------------------------------------- clipboard specification
\* One process (node A) with its poller, its receive loop and the commands
\* that gate them; remote peers appear as injected gossip events.  The user
\* joins until the node has a subscription.
NextClip ==
    \E n \in {"A"} :
        \/ Setup(n)
        \/ enable_clipboard_sharing(n)
        \/ disable_clipboard_sharing(n)
        \/ \E v \in Texts \cup {NonText} : UserCopy(n, v)
        \/ \E s \in JoinInputs : subs[n] = <<>> /\ JoinStart(n, s)
        \/ JoinSetTopic(n)
        \/ JoinSetSender(n)
        \/ PollTick(n)
        \/ PollReadSender(n)
        \/ PollReadTopic(n)
        \/ PollGetText(n)
        \/ PollCompare(n)
        \/ PollBroadcast(n)
        \/ \E k \in 1..MaxJoins, b \in RemoteClipboardPayloads : InjectClipboard(n, k, b)
        \/ \E k \in 1..MaxJoins : RecvClipboard(n, k)
        \/ \E k \in 1..MaxJoins : RecvSetLast(n, k)

SpecClip == Init /\ [][NextClip]_vars

\* ------------------------------------------- ticket and join specification
\* Both nodes with the two ticket commands; a ticket a node has issued may be
\* handed to any node.
NextJoin ==
    \E n \in Nodes :
        \/ Setup(n)
        \/ create_gossip_ticket(n)
        \/ \E s \in JoinInputs \cup issued : JoinStart(n, s)
        \/ JoinSetTopic(n)
        \/ JoinSetSender(n)

SpecJoin == Init /\ [][NextJoin]_vars

\* --------------------------------------------- FS dispatcher specification
\* Node A with its watcher and dispatcher while the user writes and deletes
\* files and joins a topic.
NextFs ==
    \E n \in {"A"} :
        \/ Setup(n)
        \/ WatcherStart(n)
        \/ \E s \in JoinInputs : subs[n] = <<>> /\ JoinStart(n, s)
        \/ JoinSetTopic(n)
        \/ JoinSetSender(n)
        \/ \E path \in UserPaths, content \in Contents : UserWrite(n, path, content)
        \/ \E path \in UserPaths : UserRemove(n, path)
        \/ \E kind \in {"Access", "Error"}, path \in UserPaths : WatcherReports(n, kind, path)
        \/ FsDispatch(n)
        \/ \E i \in 1..MaxFsOps : FsImport(n, i)
        \/ \E i \in 1..MaxFsOps : FsReadTopic(n, i)
        \/ \E i \in 1..MaxFsOps : FsLockSender(n, i)
        \/ \E i \in 1..MaxFsOps, ok \in BOOLEAN : FsBroadcast(n, i, ok)

SpecFs == Init /\ [][NextFs]_vars

\* ------------------------------------------------ file receive specification
\* Node B with one receive loop and its download tasks; the peer R sends the
\* announcements.  The transports are reliable and every step of the receive
\* path that can be taken is taken eventually.
NextRecv ==
    \E n \in {"B"} :
        \/ Setup(n)
        \/ \E s \in JoinInputs : subs[n] = <<>> /\ JoinStart(n, s)
        \/ JoinSetTopic(n)
        \/ JoinSetSender(n)
        \/ \E k \in 1..MaxJoins, b \in RemoteFilePayloads(n) : InjectFile(n, k, b)
        \/ \E k \in 1..MaxJoins : RecvFile(n, k)
        \/ \E j \in 1..MaxRemote : DlPrepare(n, j)
        \/ \E j \in 1..MaxRemote : DlDownload(n, j)
        \/ \E j \in 1..MaxRemote : DlExport(n, j)

\* the runtime runs a task of the receive path that is ready
RecvPath(n) ==
    \/ \E k \in 1..MaxJoins : RecvFile(n, k)
    \/ \E j \in 1..MaxRemote : DlPrepare(n, j) \/ DlDownload(n, j) \/ DlExport(n, j)

RecvFairness == \A n \in {"B"} : WF_vars(RecvPath(n))

SpecRecv == Init /\ [][NextRecv]_vars /\ RecvFairness

\* ------------------------------------------------- two-peer specification
\* Scenario S1: peers A and B start, A issues tickets, both peers join with a
\* ticket A issued, then the user of A creates docs/hello.txt.  Gossip and
\* blob transport are reliable: a broadcast returns Ok and a blob its
\* provider holds is fetched.
HelloPath == SyncFolder \o <<"docs", "hello.txt">>

NextSync ==
    \/ \E n \in Nodes :
        \/ Setup(n)
        \/ WatcherStart(n)
        \/ \E s \in issued : ~Exists(fs["A"], HelloPath) /\ JoinStart(n, s)
        \/ JoinSetTopic(n)
        \/ JoinSetSender(n)
        \/ FsDispatch(n)
        \/ \E i \in 1..MaxTasks : FsImport(n, i)
        \/ \E i \in 1..MaxTasks : FsReadTopic(n, i)
        \/ \E i \in 1..MaxTasks : FsLockSender(n, i)
        \/ \E i \in 1..MaxTasks : FsBroadcast(n, i, TRUE)
        \/ \E k \in 1..MaxJoins : RecvFile(n, k)
        \/ \E j \in 1..MaxTasks : DlPrepare(n, j)
        \/ \E j \in 1..MaxTasks : DlDownload(n, j)
        \/ \E j \in 1..MaxTasks : DlExport(n, j)
    \/ create_gossip_ticket("A")
    \/ \E content \in Contents :
           ~Exists(fs["A"], HelloPath) /\ UserWrite("A", HelloPath, content)

\* the runtime of a node runs a task that is ready
Runs(n) ==
    \/ JoinSetTopic(n)
    \/ JoinSetSender(n)
    \/ FsDispatch(n)
    \/ \E i \in 1..MaxTasks :
           FsImport(n, i) \/ FsReadTopic(n, i) \/ FsLockSender(n, i) \/ FsBroadcast(n, i, TRUE)
    \/ \E k \in 1..MaxJoins : RecvFile(n, k)
    \/ \E j \in 1..MaxTasks : DlPrepare(n, j) \/ DlDownload(n, j) \/ DlExport(n, j)

SpecSync == Init /\ [][NextSync]_vars /\ WF_vars(\E n \in Nodes : Runs(n))

\* ------------------------------------------------ receive loop specification
\* Node A with one receive loop; remote peers send clipboard payloads, a file
\* announcement and payloads that cannot be decoded.  The runtime runs the
\* loop whenever it has an event.
LoopPayloads(n) ==
    RemoteClipboardPayloads \cup UndecodablePayloads
        \cup { RemoteFile(Remote, <<"top.txt">>, BlobTicketString(Remote, Hash("hi"))) }

NextLoop ==
    \E n \in {"A"} :
        \/ Setup(n)
        \/ enable_clipboard_sharing(n)
        \/ \E s \in JoinInputs : subs[n] = <<>> /\ JoinStart(n, s)
        \/ JoinSetTopic(n)
        \/ JoinSetSender(n)
        \/ \E k \in 1..MaxJoins, b \in LoopPayloads(n) : InjectFile(n, k, b)
        \/ \E k \in 1..MaxJoins : RecvClipboard(n, k)
        \/ \E k \in 1..MaxJoins : RecvSetLast(n, k)
        \/ \E k \in 1..MaxJoins : RecvFile(n, k)
        \/ \E k \in 1..MaxJoins : RecvOther(n, k)

LoopRuns(n) ==
    \E k \in 1..MaxJoins :
        RecvClipboard(n, k) \/ RecvSetLast(n, k) \/ RecvFile(n, k) \/ RecvOther(n, k)

SpecLoop == Init /\ [][NextLoop]_vars /\ WF_vars(LoopRuns("A"))

\* ---------------------------------------------------- quiescent specification
\* Node A with its poller while nothing happens: whatever the clipboard holds
\* was put there before the process started, no remote payload arrives and no
\* file is touched.  The user enables sharing and joins a topic.
NextQuiet ==
    \E n \in {"A"} :
        \/ \E v \in Texts \cup {NonText} : ~Managed(n) /\ UserCopy(n, v)
        \/ Setup(n)
        \/ enable_clipboard_sharing(n)
        \/ disable_clipboard_sharing(n)
        \/ \E s \in JoinInputs : subs[n] = <<>> /\ JoinStart(n, s)
        \/ JoinSetTopic(n)
        \/ JoinSetSender(n)
        \/ PollTick(n)
        \/ PollReadSender(n)
        \/ PollReadTopic(n)
        \/ PollGetText(n)
        \/ PollCompare(n)
        \/ PollBroadcast(n)

SpecQuiet == Init /\ [][NextQuiet]_vars

\* ----------------------------------------------------- late-join specification
\* Scenario S4: as the two-peer scenario, except that B issues join_gossip
\* only after the user of A has created docs/hello.txt.  A node joins until it
\* has a subscription.
NextLate ==
    \/ \E n \in Nodes :
        \/ Setup(n)
        \/ WatcherStart(n)
        \/ \E s \in issued :
               /\ subs[n] = <<>>
               /\ n = "B" => Exists(fs["A"], HelloPath)
               /\ JoinStart(n, s)
        \/ JoinSetTopic(n)
        \/ JoinSetSender(n)
        \/ FsDispatch(n)
        \/ \E i \in 1..MaxTasks : FsImport(n, i)
        \/ \E i \in 1..MaxTasks : FsReadTopic(n, i)
        \/ \E i \in 1..MaxTasks : FsLockSender(n, i)
        \/ \E i \in 1..MaxTasks : FsBroadcast(n, i, TRUE)
        \/ \E k \in 1..MaxJoins : RecvFile(n, k)
        \/ \E j \in 1..MaxTasks : DlPrepare(n, j)
        \/ \E j \in 1..MaxTasks : DlDownload(n, j)
        \/ \E j \in 1..MaxTasks : DlExport(n, j)
    \/ create_gossip_ticket("A")
    \/ \E content \in Contents :
           ~Exists(fs["A"], HelloPath) /\ UserWrite("A", HelloPath, content)

SpecLate == Init /\ [][NextLate]_vars

\* ------------------------------------------------ config store specification
\* Both processes with the commands that write topic-id, across restarts.
NextStore ==
    \E n \in Nodes :
        \/ Setup(n)
        \/ Restart(n)
        \/ create_gossip_ticket(n)
        \/ \E s \in JoinInputs : subs[n] = <<>> /\ JoinStart(n, s)
        \/ JoinSetTopic(n)
        \/ JoinSetSender(n)

SpecStore == Init /\ [][NextStore]_vars

\* -------------------------------------------------- bootstrap specification
\* One process (node A) over its cold starts: the data directory may hold a
\* pre-seeded secret_key file, a setup run may fail, the watcher task runs
\* beside the setup task and the host asks for the node id.
NextBoot ==
    \E n \in {"A"} :
        \/ \E bytes \in SeedFiles : SeedSecretKey(n, bytes)
        \/ \E generated \in Keys, fault \in SetupFaults : SetupRun(n, generated, fault)
        \/ Restart(n)
        \/ get_node_info(n)
        \/ WatcherStart(n)
        \/ \E path \in UserPaths, content \in Contents : UserWrite(n, path, content)
        \/ FsDispatch(n)

SpecBoot == Init /\ [][NextBoot]_vars

\* ---------------------------------------------------- ticket specification
\* A peer formats a ticket (create_iroh_gossip_ticket on its side), node A
\* creates tickets of its own, and the user of node A hands a string to
\* join_gossip, which parses it.
PeerTicket(t) ==
    /\ issued = {}
    /\ issued' = {TicketToString(t)}
    /\ UNCHANGED <<appstate, store, gossip_topic, gossip_sender, join, joins, subs, injected, handled>>
    /\ UNCHANGED <<clipVars, sent, fileVars, bootVars>>

NextTicket ==
    \/ \E t \in Tickets : PeerTicket(t)
    \/ \E n \in {"A"} :
        \/ Setup(n)
        \/ create_gossip_ticket(n)
        \/ \E s \in issued \cup {BadTicketString} : subs[n] = <<>> /\ JoinStart(n, s)
        \/ JoinSetTopic(n)
        \/ JoinSetSender(n)

SpecTicket == Init /\ [][NextTicket]_vars

\* --------------------------------------------------- shutdown specification
\* One process (node A): setup runs, with or without success, the user asks
\* for the window to close, at any time and again after a cleanup task has
\* died, and the runtime runs the cleanup task; with the window closed the
\* process ends and may be started again.
NextShutdown ==
    \E n \in {"A"} :
        \/ \E generated \in Keys, fault \in SetupFaults : SetupRun(n, generated, fault)
        \/ window[n] = "closed" /\ Restart(n)
        \/ CloseRequested(n)
        \/ ShutLock(n)
        \/ \E stopped \in BOOLEAN : ShutAbortSync(n, stopped)
        \/ \E ok \in BOOLEAN : ShutRouter(n, ok)
        \/ ShutEndpoint(n)
        \/ ShutClose(n)

CleanupRuns(n) ==
    \/ ShutLock(n)
    \/ \E stopped \in BOOLEAN : ShutAbortSync(n, stopped)
    \/ \E ok \in BOOLEAN : ShutRouter(n, ok)
    \/ ShutEndpoint(n)
    \/ ShutClose(n)

SpecShutdown == Init /\ [][NextShutdown]_vars /\ WF_vars(CleanupRuns("A"))

\* ------------------------------------------------------ stream specification
\* Node A with one receive loop and everything its stream can yield: payloads
\* of both types, a payload that carries the fields of both, undecodable
\* payloads, neighbor events, errors, and the end of the stream.  Download
\* tasks are spawned and not run.
BothPayload ==
    [from_node_id |-> Remote, content |-> "y", from |-> Remote, topic |-> "t1",
     file_name |-> "top.txt", relative_path |-> <<"top.txt">>,
     message_content |-> BlobTicketString(Remote, Hash("hi"))]

StreamPayloads(n) == LoopPayloads(n) \cup {BothPayload}

NextStream ==
    \E n \in {"A"} :
        \/ Setup(n)
        \/ enable_clipboard_sharing(n)
        \/ \E s \in JoinInputs : subs[n] = <<>> /\ JoinStart(n, s)
        \/ JoinSetTopic(n)
        \/ JoinSetSender(n)
        \/ \E k \in 1..MaxJoins, b \in StreamPayloads(n) : StreamOpen(n, k) /\ InjectFile(n, k, b)
        \/ \E k \in 1..MaxJoins, item \in StreamEvents : InjectEvent(n, k, item)
        \/ \E k \in 1..MaxJoins : RecvClipboard(n, k)
        \/ \E k \in 1..MaxJoins : RecvSetLast(n, k)
        \/ \E k \in 1..MaxJoins : RecvFile(n, k)
        \/ \E k \in 1..MaxJoins : RecvOther(n, k)
        \/ \E k \in 1..MaxJoins : RecvEvent(n, k)

StreamRuns(n) ==
    \E k \in 1..MaxJoins :
        \/ RecvClipboard(n, k) \/ RecvSetLast(n, k) \/ RecvFile(n, k)
        \/ RecvOther(n, k) \/ RecvEvent(n, k)

SpecStream == Init /\ [][NextStream]_vars /\ WF_vars(StreamRuns("A"))

\* ----------------------------------------------------- watcher specification
\* Node A with its watcher thread and the event loop that holds the receiver
\* of the thread's channel.  The watcher can fail to start; the event loop
\* can die in handle_fs_payload when an event arrives before setup has
\* managed the state.  Whatever can run does run.
NextWatch ==
    \E n \in {"A"} :
        \/ Setup(n)
        \/ WatcherStart(n)
        \/ WatchThreadFails(n)
        \/ WatchThreadSleeps(n)
        \/ FsLoopEnds(n)
        \/ \E path \in UserPaths, content \in Contents : UserWrite(n, path, content)
        \/ \E path \in UserPaths : UserRemove(n, path)
        \/ FsDispatch(n)
        \/ \E i \in 1..MaxFsOps : FsImport(n, i)
        \/ \E i \in 1..MaxFsOps : FsReadTopic(n, i)

WatchRuns(n) ==
    \/ WatchThreadSleeps(n) \/ FsLoopEnds(n) \/ FsDispatch(n)
    \/ \E i \in 1..MaxFsOps : FsImport(n, i) \/ FsReadTopic(n, i)

SpecWatch == Init /\ [][NextWatch]_vars /\ WF_vars(WatchRuns("A"))

\* -------------------------------------------------------- peers specification
\* Both nodes join with tickets that list one or two nodes: the node itself,
\* the other node, both in either order, with and without addressing
\* information.
PeerInputs ==
    { TicketToString(GossipTicket("t1", nodes)) :
        nodes \in { <<NodeAddr("A", TRUE)>>, <<NodeAddr("A", FALSE)>>, <<NodeAddr("B", TRUE)>>,
                    <<NodeAddr("A", TRUE), NodeAddr("B", TRUE)>>,
                    <<NodeAddr("B", TRUE), NodeAddr("A", FALSE)>>,
                    <<NodeAddr("B", TRUE), NodeAddr("B", FALSE)>>,
                    <<NodeAddr("A", TRUE), NodeAddr("A", TRUE)>> } }

NextPeers ==
    \E n \in Nodes :
        \/ Setup(n)
        \/ \E s \in PeerInputs : JoinStart(n, s)
        \/ JoinSetTopic(n)
        \/ JoinSetSender(n)

SpecPeers == Init /\ [][NextPeers]_vars

\* ------------------------------------------------------- rejoin specification
\* Node A, whose user issues join_gossip more than once: with a ticket of
\* topic t1, a ticket of topic t2, a string that is no ticket and a ticket
\* string cut short.  The peer R broadcasts clipboard and file payloads on
\* the topics; the overlay hands a payload to every subscription to its topic.
CutTicket ==
    LET str == TicketToString(GossipTicket("t1", <<NodeAddr("B", TRUE)>>))
    IN  SubSeq(str, 1, Len(str) - 1)

RejoinInputs ==
    { TicketToString(GossipTicket("t1", <<NodeAddr("B", TRUE)>>)),
      TicketToString(GossipTicket("t2", <<NodeAddr("B", TRUE)>>)),
      BadTicketString, CutTicket }

RejoinPayloads ==
    { ClipboardToVec(ClipboardPayload(Remote, "x")),
      RemoteFile(Remote, <<"top.txt">>, BlobTicketString(Remote, Hash("hi"))) }

\* the peer R broadcasts on a topic
RemoteBroadcast(n, topic, bytes) ==
    /\ injected[n] < MaxRemote
    /\ \E k \in 1..Len(subs[n]) : subs[n][k].topic = topic
    /\ injected' = [injected EXCEPT ![n] = @ + 1]
    /\ subs' = Deliver(subs, Remote, topic, bytes)
    /\ UNCHANGED <<appstate, store, gossip_topic, gossip_sender, join, joins, issued, handled>>
    /\ UNCHANGED <<clipVars, sent>>
    /\ UNCHANGED fileVars
    /\ UNCHANGED bootVars

NextRejoin ==
    \E n \in {"A"} :
        \/ Setup(n)
        \/ enable_clipboard_sharing(n)
        \/ \E s \in RejoinInputs : joins[n] < MaxRejoins /\ JoinCommand(n, s)
        \/ JoinSetTopic(n)
        \/ JoinSetSender(n)
        \/ \E topic \in Topics, b \in RejoinPayloads : RemoteBroadcast(n, topic, b)
        \/ \E k \in 1..MaxRejoins : RecvClipboard(n, k)
        \/ \E k \in 1..MaxRejoins : RecvSetLast(n, k)
        \/ \E k \in 1..MaxRejoins : RecvFile(n, k)

SpecRejoin == Init /\ [][NextRejoin]_vars

\* ------------------------------------------------- event kinds specification
\* Node A with its watcher; the notify backend reports events of every kind
\* with no path, one path or two paths, and errors of the watcher, while the
\* user writes and removes files.
PlatformKinds ==
    { "Create", "Remove", "ModifyData", "ModifyMetadata", "ModifyAny", "ModifyOther",
      "RenameTo", "RenameFrom", "RenameBoth", "RenameAny", "RenameOther",
      "Access", "Other", "Any", "Error" }

PathLists ==
    { <<>>,
      <<SyncFolder \o <<"top.txt">>>>,
      <<SyncFolder \o <<"docs", "hello.txt">>>>,
      <<SyncFolder \o <<"top.txt">>, SyncFolder \o <<"docs", "hello.txt">>>> }

\* the backend puts an event, or an error with the paths it concerns, on the
\* channel
PlatformReports(n, kind, paths) ==
    /\ watcher[n] = "running"
    /\ watch_thread[n] = "watching"
    /\ fsops[n] < MaxFsOps
    /\ fsops' = [fsops EXCEPT ![n] = @ + 1]
    /\ watch_q' = [watch_q EXCEPT ![n] = Append(@, Event(kind, paths))]
    /\ UNCHANGED <<coreVars, clipVars, sent>>
    /\ UNCHANGED <<fs, watcher, fs_tasks, fs_calls, sender_lock, topic_lock, blob_store, downloads>>
    /\ UNCHANGED bootVars

NextKinds ==
    \E n \in {"A"} :
        \/ Setup(n)
        \/ WatcherStart(n)
        \/ \E path \in UserPaths, content \in {"hi"} : UserWrite(n, path, content)
        \/ \E path \in UserPaths : UserRemove(n, path)
        \/ \E kind \in PlatformKinds, paths \in PathLists : PlatformReports(n, kind, paths)
        \/ FsDispatch(n)

SpecKinds == Init /\ [][NextKinds]_vars

\* --------------------------------------------------- join race specification
\* Node A, whose user joins a topic and then another while files are created
\* under the sync folder and the clipboard poller ticks: the dispatcher
\* tasks, the poller and the join command interleave step by step.
RaceInputs ==
    { TicketToString(GossipTicket("t1", <<NodeAddr("B", TRUE)>>)),
      TicketToString(GossipTicket("t2", <<NodeAddr("B", TRUE)>>)) }

NextRace ==
    \E n \in {"A"} :
        \/ Setup(n)
        \/ WatcherStart(n)
        \/ enable_clipboard_sharing(n)
        \/ \E s \in RaceInputs : joins[n] < MaxRejoins /\ JoinCommand(n, s)
        \/ JoinSetTopic(n)
        \/ JoinSetSender(n)
        \/ \E content \in {"hi"} : UserWrite(n, SyncFolder \o <<"top.txt">>, content)
        \/ \E v \in {"x"} : UserCopy(n, v)
        \/ FsDispatch(n)
        \/ \E i \in 1..MaxFsOps : FsImport(n, i)
        \/ \E i \in 1..MaxFsOps : FsReadTopic(n, i)
        \/ \E i \in 1..MaxFsOps : FsLockSender(n, i)
        \/ \E i \in 1..MaxFsOps, ok \in BOOLEAN : FsBroadcast(n, i, ok)
        \/ PollTick(n)
        \/ PollReadSender(n)
        \/ PollReadTopic(n)
        \/ PollGetText(n)
        \/ PollCompare(n)
        \/ PollBroadcast(n)

SpecRace == Init /\ [][NextRace]_vars

\* ------------------------------------------------------- locks specification
\* Node A with every task that takes a lock of the shared state: the poller,
\* the receive loops, the dispatcher tasks and the join_gossip command, which
\* the user issues up to twice.  A task takes each lock in a step of its own
\* and does under the lock what the code does before the guard is dropped.
ByTask(n) ==
    {ByPoller, ByJoin} \cup { ByRecv(k) : k \in 1..Len(subs[n]) }
                      \cup { ByFs(i) : i \in 1..Len(fs_tasks[n]) }

\* the receive loop k is about to apply a clipboard payload
RecvAtApply(n, k) ==
    /\ AtNext(n, k)
    /\ IsSome(ClipboardFromBytes(Head(subs[n][k].inbox)))
    /\ ApplyRemote(n, Unwrap(ClipboardFromBytes(Head(subs[n][k].inbox))))

\* the lock a task is about to take, or "none"
Wants(n, task) ==
    CASE task = ByPoller ->
            (CASE poller[n].pc = "lock_sender" -> "sender"
               [] poller[n].pc = "lock_topic" -> "topic"
               [] poller[n].pc = "get_text" -> "clipboard"
               [] poller[n].pc = "compare" -> "last"
               [] OTHER -> "none")
      [] task = ByJoin ->
            (CASE join[n].pc = "set_topic" -> "topic"
               [] join[n].pc = "set_sender" -> "sender"
               [] OTHER -> "none")
      [] task[1] = "fs" ->
            (CASE fs_tasks[n][task[2]].pc = "read_topic" -> "topic"
               [] fs_tasks[n][task[2]].pc = "lock_sender" -> "sender"
               [] OTHER -> "none")
      [] task[1] = "recv" ->
            (CASE subs[n][task[2]].pc = "lock_last" -> "last"
               [] RecvAtApply(n, task[2]) -> "clipboard"
               [] OTHER -> "none")

\* the holder of a lock
HolderOf(n, lock) ==
    CASE lock = "topic" -> topic_lock[n]
      [] lock = "sender" -> sender_lock[n]
      [] lock = "clipboard" -> clip_lock[n]
      [] lock = "last" -> last_lock[n]

\* gossip_topic.lock().await returns the guard: gossip_ops.rs 119,
\* clipboard_monitor.rs 129, gossip_commands.rs 105
TopicLock(n, task) ==
    /\ task \in ByTask(n)
    /\ Wants(n, task) = "topic"
    /\ topic_lock[n] = Free
    /\ topic_lock' = [topic_lock EXCEPT ![n] = task]
    /\ UNCHANGED <<coreVars, clipVars, sent, fsVars, sender_lock, bootVars>>

\* gossip_sender.lock().await returns the guard to the poller or to the join
\* command: clipboard_monitor.rs 128, gossip_commands.rs 116
SenderLock(n, task) ==
    /\ task \in {ByPoller, ByJoin}
    /\ Wants(n, task) = "sender"
    /\ sender_lock[n] = Free
    /\ sender_lock' = [sender_lock EXCEPT ![n] = task]
    /\ UNCHANGED <<coreVars, clipVars, sent, fsVars, topic_lock, bootVars>>

\* clipboard.lock().unwrap() returns the guard to the poller:
\* clipboard_monitor.rs 143
ClipboardLock(n) ==
    /\ Wants(n, ByPoller) = "clipboard"
    /\ clip_lock[n] = Free
    /\ clip_lock' = [clip_lock EXCEPT ![n] = ByPoller]
    /\ UNCHANGED <<coreVars, clipboard, last_content, last_lock, poller, copies, echo_guard, placed>>
    /\ UNCHANGED <<sent, fileVars, bootVars>>

\* last_content.lock().unwrap() returns the guard to the receive loop, which
\* holds the clipboard guard: clipboard_monitor.rs 75
LastLock(n, k) ==
    /\ k \in 1..Len(subs[n])
    /\ Wants(n, ByRecv(k)) = "last"
    /\ last_lock[n] = Free
    /\ last_lock' = [last_lock EXCEPT ![n] = ByRecv(k)]
    /\ UNCHANGED <<coreVars, clipboard, last_content, clip_lock, poller, copies, echo_guard, placed>>
    /\ UNCHANGED <<sent, fileVars, bootVars>>

LockInputs ==
    { TicketToString(GossipTicket("t1", <<NodeAddr("B", TRUE)>>)) }

LockPayloads == { ClipboardToVec(ClipboardPayload(Remote, "y")) }

NextLocks ==
    \E n \in {"A"} :
        \/ Setup(n)
        \/ WatcherStart(n)
        \/ enable_clipboard_sharing(n)
        \/ \E s \in LockInputs : joins[n] < MaxRejoins /\ JoinCommand(n, s)
        \/ JoinSetTopic(n)
        \/ JoinSetSender(n)
        \/ \E task \in {ByPoller, ByJoin} \cup { ByFs(i) : i \in 1..MaxFsOps } : TopicLock(n, task)
        \/ \E task \in {ByPoller, ByJoin} : SenderLock(n, task)
        \/ ClipboardLock(n)
        \/ \E k \in 1..MaxRejoins : LastLock(n, k)
        \/ \E content \in {"hi"} : UserWrite(n, SyncFolder \o <<"top.txt">>, content)
        \/ \E v \in {"x"} : UserCopy(n, v)
        \/ FsDispatch(n)
        \/ \E i \in 1..MaxFsOps : FsImport(n, i)
        \/ \E i \in 1..MaxFsOps : FsReadTopic(n, i)
        \/ \E i \in 1..MaxFsOps : FsLockSender(n, i)
        \/ \E i \in 1..MaxFsOps, ok \in BOOLEAN : FsBroadcast(n, i, ok)
        \/ PollTick(n)
        \/ PollReadSender(n)
        \/ PollReadTopic(n)
        \/ PollGetText(n)
        \/ PollCompare(n)
        \/ PollBroadcast(n)
        \/ \E topic \in Topics, b \in LockPayloads : RemoteBroadcast(n, topic, b)
        \/ \E k \in 1..MaxRejoins : RecvClipboard(n, k)
        \/ \E k \in 1..MaxRejoins : RecvSetLast(n, k)

SpecLocks == Init /\ [][NextLocks]_vars

\* ------------------------------------------------------------------ claims
\* the receive loop of subscription k consumes the event at the head of its stream
Consumes(n, k) ==
    /\ AtNext(n, k)
    /\ subs'[n][k].inbox = Tail(subs[n][k].inbox)

HeadClipboard(n, k) == ClipboardFromBytes(Head(subs[n][k].inbox))

\* C2: a step of the receive loop that handles a ClipboardAnnouncement whose
\* from_node_id is the local NodeId leaves the clipboard and last_content
\* unchanged and schedules no update of them, whatever the sharing flag is.
C2_SelfClipboardNeverApplied ==
    [][\A n \in Nodes : \A k \in 1..Len(subs[n]) :
        (/\ Consumes(n, k)
         /\ IsSome(HeadClipboard(n, k))
         /\ Unwrap(HeadClipboard(n, k)).from_node_id = n)
        => /\ clipboard'[n] = clipboard[n]
           /\ last_content'[n] = last_content[n]
           /\ subs'[n][k].pc = "next"]_vars

\* C2 witness: a self-sent clipboard payload was handled with sharing enabled
\* and a monitor present, carrying a text the clipboard does not hold
C2_Witness ==
    \E n \in Nodes :
        /\ IsSome(handled[n])
        /\ IsSome(ClipboardFromBytes(Unwrap(handled[n])))
        /\ Unwrap(handled[n]).from_node_id = n
        /\ Managed(n) /\ State(n).clipboard_monitor
        /\ store[n].sharing = "true"
        /\ clipboard[n] # Unwrap(handled[n]).content

\* a successful broadcast of the poller in this step, and its text
PollerSends(n) == Len(sent'[n]) = Len(sent[n]) + 1
SentText(n) == sent'[n][Len(sent'[n])].content

\* C5: once a remote ClipboardAnnouncement with content c has been applied,
\* the poller does not broadcast c unless the user has placed c on the
\* clipboard again.
C5_NoEcho ==
    [][\A n \in Nodes : PollerSends(n) => SentText(n) \notin echo_guard[n]]_vars

C3_TopicIffSender ==
    \A n \in Nodes : IsSome(gossip_topic[n]) <=> IsSome(gossip_sender[n])

\* create_gossip_ticket has returned a ticket to node n
OwnTicket ==
    [n \in Nodes, topic \in Topics |->
        TicketToString(GossipTicket(topic, <<NodeAddr(n, TRUE)>>))]
Created(n) == \E topic \in Topics : OwnTicket[n, topic] \in issued

LoopSpawned(n) == \E k \in 1..Len(subs[n]) : subs[n][k].loop

CallsOf(n, i) == { c \in 1..Len(fs_calls[n]) : fs_calls[n][c].task = i }

\* the announcement C7 expects for a Create event on path, from the ticket
\* and topic the task read
ExpectedAnnouncement(n, t) ==
    [from |-> n, topic |-> Unwrap(t.topic),
     file_name |-> t.path[Len(t.path)],
     relative_path |-> Interleave(SubSeq(t.path, Len(SyncFolder) + 1, Len(t.path))),
     message_content |-> Unwrap(t.ticket)]

\* the step takes a Remove event from node n's channel
TakesRemove(n) ==
    /\ watch_q[n] # <<>>
    /\ Head(watch_q[n]).kind = "Remove"
    /\ watch_q'[n] = Tail(watch_q[n])

\* C7: a Create event on a path under the sync root whose task found the
\* import succeeding and endpoint, blobs, active_topic and active_sender
\* present makes exactly one broadcast call, of a FileAnnouncement with
\* from = the local NodeId, relative_path = the path without the sync-root
\* prefix and file_name = the last component; a task that found one of them
\* absent makes none; a Remove event spawns no task and makes no call; what
\* is on the overlay was handed to it by one of these calls.
C7_CreateAnnouncedOnce ==
    /\ [](\A n \in Nodes : \A i \in 1..Len(fs_tasks[n]) :
            LET t == fs_tasks[n][i]
            IN  /\ (IsSome(t.ticket) /\ IsSome(t.topic) /\ IsSome(t.via))
                     => /\ Cardinality(CallsOf(n, i)) = 1
                        /\ \A c \in CallsOf(n, i) :
                               fs_calls[n][c].bytes = ExpectedAnnouncement(n, t)
                /\ (t.pc = "done" /\ ~(IsSome(t.ticket) /\ IsSome(t.topic) /\ IsSome(t.via)))
                     => CallsOf(n, i) = {})
    /\ [](\A n \in Nodes :
            /\ \A c \in 1..Len(fs_calls[n]) : fs_calls[n][c].task \in 1..Len(fs_tasks[n])
            /\ Len(sent[n]) <= Len(fs_calls[n])
            /\ \A m \in 1..Len(sent[n]) :
                   \E c \in 1..Len(fs_calls[n]) : fs_calls[n][c].bytes = sent[n][m])
    /\ [][\A n \in Nodes :
            TakesRemove(n) => /\ fs_tasks'[n] = fs_tasks[n]
                              /\ fs_calls'[n] = fs_calls[n]
                              /\ sent'[n] = sent[n]]_vars

\* C7 witness: docs/hello.txt was created and announced once with success,
\* then removed, and the Remove event has been taken from the channel
C7_Witness ==
    \E n \in Nodes : \E i \in 1..Len(fs_tasks[n]) :
        /\ fs_tasks[n][i].pc = "done"
        /\ fs_tasks[n][i].path = SyncFolder \o <<"docs", "hello.txt">>
        /\ Cardinality(CallsOf(n, i)) = 1
        /\ Len(sent[n]) = 1
        /\ sent[n][1].relative_path = <<"docs", "/", "hello.txt">>
        /\ sent[n][1].file_name = "hello.txt"
        /\ sent[n][1].from = n
        /\ ~Exists(fs[n], fs_tasks[n][i].path)
        /\ fsops[n] = 2
        /\ watch_q[n] = <<>>
        /\ Len(fs_tasks[n]) = 1

\* C1: no download task is started, hence no file exported, for a
\* FileAnnouncement whose from is the local NodeId.
C1_SelfFileIgnored ==
    \A n \in Nodes : \A j \in 1..Len(downloads[n]) : downloads[n][j].payload.from # n

\* the ticket of an announcement names a node that holds the blob
Reachable(file_payload) ==
    LET ticket == BlobTicketFromStr(file_payload.message_content)
    IN  /\ IsSome(ticket)
        /\ IsSome(Lookup(ProviderStore(Unwrap(ticket).node), Unwrap(ticket).hash))

AnnouncedBlob(file_payload) ==
    LET ticket == Unwrap(BlobTicketFromStr(file_payload.message_content))
    IN  Unwrap(Lookup(ProviderStore(ticket.node), ticket.hash))

\* the receive loop has just taken an announcement from another node with a
\* reachable ticket as its j-th file announcement
Inbound(n, j) ==
    /\ DlAt(n, j, "prepare")
    /\ downloads[n][j].payload.from # n
    /\ Reachable(downloads[n][j].payload)

\* the file of the j-th announcement is at its destination, the sync folder
\* joined with relative_path
Exported(n, j) ==
    /\ j \in 1..Len(downloads[n])
    /\ Reachable(downloads[n][j].payload)
    /\ LET dest == Resolve(DestPath(downloads[n][j].payload))
       IN  /\ dest \in DOMAIN fs[n]
           /\ fs[n][dest] = AnnouncedBlob(downloads[n][j].payload)

\* the destination of the j-th announcement cannot hold a file: it is a
\* directory, or the file-system root, or one of its ancestors is a file
Blocked(n, j) ==
    /\ j \in 1..Len(downloads[n])
    /\ LET dest == Resolve(DestPath(downloads[n][j].payload))
       IN  \/ Len(dest) <= 1
           \/ dest \in DOMAIN fs[n] /\ fs[n][dest] = Dir
           \/ \E q \in Prefixes(dest) : q # dest /\ q \in DOMAIN fs[n] /\ fs[n][q] # Dir

\* the step is the successful export of the j-th announcement
Exports(n, j) ==
    /\ DlAt(n, j, "export")
    /\ downloads'[n][j].result = "ok"

\* every ancestor directory of the j-th destination exists
AncestorsExist(n, j) ==
    LET dest == Resolve(DestPath(downloads[n][j].payload))
    IN  \A q \in Prefixes(dest) : q # dest => (q \in DOMAIN fs[n] /\ fs[n][q] = Dir)

\* C9 as stated: every inbound announcement from another node with a
\* reachable ticket eventually has its file at sync_root/relative_path with
\* the announced content, the ancestors existing before the export.
C9_ExportEventually ==
    /\ \A n \in Nodes : \A j \in 1..MaxRemote : Inbound(n, j) ~> Exported(n, j)
    /\ [][\A n \in Nodes : \A j \in 1..MaxRemote : Exports(n, j) => AncestorsExist(n, j)]_vars

\* C9 amended: every inbound announcement from another node with a reachable
\* ticket eventually has its file at sync_root/relative_path with the
\* announced content, unless that destination is a directory or has a file
\* among its ancestors; the ancestors exist before the export.
C9_ExportUnlessBlocked ==
    /\ \A n \in Nodes : \A j \in 1..MaxRemote :
           Inbound(n, j) ~> (Exported(n, j) \/ Blocked(n, j))
    /\ [][\A n \in Nodes : \A j \in 1..MaxRemote : Exports(n, j) => AncestorsExist(n, j)]_vars

\* C9 witness: docs/hello.txt has been exported into a sync folder that had
\* no directory docs
C9_Witness ==
    \E n \in Nodes : \E j \in 1..Len(downloads[n]) :
        /\ Exported(n, j)
        /\ downloads[n][j].payload.from # n
        /\ downloads[n][j].result = "ok"
        /\ downloads[n][j].payload.relative_path = <<"docs", "/", "hello.txt">>
        /\ Append(SyncFolder, "docs") \notin DOMAIN InitFs(n)
        /\ IsDir(fs[n], Append(SyncFolder, "docs"))
        /\ IsFile(fs[n], SyncFolder \o <<"docs", "hello.txt">>)

\* C10: whatever the receive path has created lies inside the sync root
C10_InsideSyncRoot ==
    \A n \in Nodes : \A p \in DOMAIN fs[n] :
        p \in DOMAIN InitFs(n) \/ IsSome(StripPrefix(p, SyncFolder))

\* the Create event of docs/hello.txt is on A's channel: the file has just
\* been created
HelloCreated ==
    \E i \in 1..Len(watch_q["A"]) : watch_q["A"][i] = NotifyEvent("Create", HelloPath)

\* create_gossip_ticket on A has returned a ticket for the topic
TicketFor(topic) ==
    OwnTicket["A", topic] \in issued

\* join_gossip on node n with a ticket for the topic has returned Ok
JoinedWith(n, topic) ==
    /\ join[n].pc = "idle" /\ join[n].result = "ok"
    /\ gossip_topic[n] = Some(topic)
    /\ \E k \in 1..Len(subs[n]) : subs[n][k].loop /\ subs[n][k].topic = topic

\* B's sync root holds docs/hello.txt with the content it has on A
HelloSynced ==
    /\ IsFile(fs["B"], HelloPath) /\ IsFile(fs["A"], HelloPath)
    /\ fs["B"][HelloPath] = fs["A"][HelloPath]

HeadUndecodable(n, k) ==
    /\ ClipboardFromBytes(Head(subs[n][k].inbox)) = NoneOpt
    /\ FileFromBytes(Head(subs[n][k].inbox)) = NoneOpt

C12_Quiescence ==
    [][\A n \in Nodes : sent'[n] = sent[n]]_vars

\* A's watcher and dispatcher have nothing left to do for docs/hello.txt: the
\* file exists, no event waits on the channel and every spawned task has ended
HelloSettled ==
    /\ IsFile(fs["A"], HelloPath)
    /\ watch_q["A"] = <<>>
    /\ \A i \in 1..Len(fs_tasks["A"]) : fs_tasks["A"][i].pc = "done"

TicketTopic(s) == Unwrap(TicketFromStr(s)).topic
IssuedTo(n, s) == Unwrap(TicketFromStr(s)).nodes[1].node_id = n

\* C14: topic persistence: as long as no join_gossip was issued on a node,
\* all the tickets create_gossip_ticket has returned to it, over any number
\* of restarts with the same config store, carry the same Topic
C14_TopicPersistence ==
    \A n \in Nodes :
        joins[n] = 0 =>
            \A s1, s2 \in issued :
                IssuedTo(n, s1) /\ IssuedTo(n, s2) => TicketTopic(s1) = TicketTopic(s2)

\* C15: join persistence: once join_gossip(T) has returned success and the
\* store's topic-id is T's topic, the topic-id stays so (across restart too)
\* and a create_gossip_ticket returns a ticket carrying T's topic
C15_JoinPersistence ==
    [][\A n \in Nodes : \A topic \in Topics :
           /\ JoinedWith(n, topic)
           /\ store[n].topic_id = Some(TopicToString(topic))
           => /\ store'[n].topic_id = store[n].topic_id
              /\ \A s \in issued' \ issued : IssuedTo(n, s) => TicketTopic(s) = topic]_vars


\* the event loop of handle_watcher takes an event from the channel and
\* hands it to handle_fs_payload
Dispatches(n) ==
    /\ watcher[n] = "running"
    /\ watch_q[n] # <<>>
    /\ watch_q'[n] = Tail(watch_q[n])
    /\ setup_result'[n] = setup_result[n]

\* C19: startup order: an FS event is dispatched to handle_fs_payload only in
\* a state where AppState has been constructed and published (managed) with
\* endpoint, blobs and gossip populated
C19_StartupOrder ==
    [][\A n \in Nodes :
           Dispatches(n) => /\ Managed(n)
                            /\ IsSome(State(n).endpoint)
                            /\ State(n).blobs
                            /\ State(n).gossip]_vars


C17_BadKeyFileAborts ==
    /\ [](\A n \in Nodes :
             IsSome(secret_key[n]) /\ Len(Unwrap(secret_key[n])) # KeyLen
             => /\ setup_result[n] \in {"none", "err"}
                /\ endpoint_key[n] = NoneOpt
                /\ ~Managed(n))
    /\ [][\A n \in Nodes :
             IsSome(secret_key[n]) /\ Len(Unwrap(secret_key[n])) # KeyLen
             => /\ secret_key'[n] = secret_key[n]
                /\ starts'[n] # starts[n] => setup_result'[n] = "err"]_vars

\* a setup run has ended on a secret_key file of 31 bytes
C17_Witness ==
    \E n \in Nodes :
        /\ IsSome(secret_key[n]) /\ Len(Unwrap(secret_key[n])) = KeyLen - 1
        /\ setup_result[n] = "err"

\* C20: the outcome of bootstrap reaches the host: a setup run that has
\* failed has emitted iroh_setup_failed, one that has succeeded has emitted
\* the ready event
C20_OutcomeSurfaced ==
    \A n \in Nodes :
        /\ setup_result[n] = "err" => "iroh_setup_failed" \in emitted[n]
        /\ setup_result[n] = "ok" => "iroh_ready" \in emitted[n]


\* C18: gossip ticket round trip: for every ticket whose string has been
\* handed out, parsing the string that formatting the ticket produces (JSON
\* bytes, Base32 without padding, lowercased) yields the ticket
Formatted == [t \in Tickets |-> TicketToString(t)]

C18_TicketRoundTrip ==
    \A t \in Tickets : Formatted[t] \in issued => TicketFromStr(Formatted[t]) = Some(t)


\* join_gossip has parsed the string a peer formatted from a ticket that
\* lists MaxNodes nodes
C18_Witness ==
    \E n \in Nodes :
        /\ join[n].pc = "set_topic"
        /\ join[n].ticket \in issued
        /\ Len(Unwrap(TicketFromStr(join[n].ticket)).nodes) = MaxNodes

\* the AppState of node n after the step
StateAfter(n) == Unwrap(appstate'[n])

\* C21: shutdown: once a close was requested the cleanup runs in the order
\* sync task, router, endpoint, handles, window (the router is shut down
\* only after the sync task was dealt with, the endpoint closed only after
\* the router was taken, the window closed only with endpoint and router gone
\* and the handles cleared), and after a close request made with AppState
\* managed the window is closed eventually in every run, also when the
\* router shutdown reports an error.
C21_ShutdownClosesWindow ==
    /\ [][\A n \in Nodes :
            (Managed(n) /\ IsSome(appstate'[n])) =>
                /\ (State(n).router /\ ~StateAfter(n).router)
                       => State(n).sync_task_handle = NoneOpt
                /\ (IsSome(State(n).endpoint) /\ StateAfter(n).endpoint = NoneOpt)
                       => ~State(n).router
                /\ (window[n] = "open" /\ window'[n] = "closed")
                       => /\ State(n).endpoint = NoneOpt
                          /\ ~StateAfter(n).blobs /\ ~StateAfter(n).gossip]_vars
    /\ \A n \in Nodes : (cleanup[n] = "state" /\ Managed(n)) ~> (window[n] = "closed")

\* the text the poller's tick has read from the clipboard
TickText(n) == Unwrap(poller[n].text)

\* C22: clipboard poll rule: a tick that has read the clipboard with sharing
\* enabled and topic and sender present broadcasts iff the text is non-empty
\* and differs from last_content; last_content becomes that text iff the
\* broadcast succeeded, and stays what it was (different from the text, so
\* that the next tick attempts it again) when the broadcast failed; nothing
\* is broadcast by the poller in any other step.
C22_PollRule ==
    /\ [][\A n \in Nodes :
            /\ (poller[n].pc = "compare" /\ poller'[n].pc # "compare")
                   => (poller'[n].pc = "broadcast"
                         <=> (TickText(n) # "" /\ TickText(n) # last_content[n]))
            /\ (poller[n].pc = "broadcast" /\ poller'[n].pc # "broadcast")
                   => IF PollerSends(n)
                      THEN /\ SentText(n) = TickText(n)
                           /\ sent'[n][Len(sent'[n])].from_node_id = n
                           /\ last_content'[n] = TickText(n)
                      ELSE /\ last_content'[n] = last_content[n]
                           /\ last_content'[n] # TickText(n)
            /\ PollerSends(n) => poller[n].pc = "broadcast"]_vars
    /\ [](\A n \in Nodes :
            poller[n].pc = "broadcast" =>
                /\ TickText(n) # "" /\ TickText(n) # last_content[n]
                /\ IsSome(poller[n].topic) /\ IsSome(poller[n].sender))

\* C22 witness: after a successful broadcast of the clipboard text a later
\* tick has read the unchanged clipboard and stands at the comparison
C22_Witness ==
    \E n \in Nodes :
        /\ SharingEnabled(n)
        /\ IsSome(gossip_topic[n]) /\ IsSome(gossip_sender[n])
        /\ sent[n] # <<>>
        /\ sent[n][Len(sent[n])].content = clipboard[n]
        /\ last_content[n] = clipboard[n]
        /\ poller[n].pc = "compare"
        /\ TickText(n) = clipboard[n]

\* C23: the std::sync locks of the clipboard monitor are not held across an
\* await: while the poller awaits the gossip broadcast it holds neither the
\* lock of the clipboard handle nor the lock of last_content, so that the
\* receive loop's set_local_clipboard_content is never kept waiting by it.
C23_NoLockAcrossAwait ==
    \A n \in Nodes :
        poller[n].pc = "broadcast" => (clip_lock[n] # ByPoller /\ last_lock[n] # ByPoller)

\* the step is the dispatch of the event at the head of node n's channel
TakesEvent(n) ==
    /\ watcher[n] = "running"
    /\ watch_q[n] # <<>>
    /\ watch_q'[n] = Tail(watch_q[n])

\* C24: an FS event of type Remove, Modify, Error or Other spawns no task and
\* causes no import and no broadcast; a task is spawned only by the dispatch
\* of a Create event, for the path of that event, and blobs are imported and
\* broadcasts made only by the steps of such a task.
C24_OnlyCreateActs ==
    [][\A n \in Nodes :
         /\ (TakesEvent(n) /\ PayloadOf(fs[n], Head(watch_q[n]))[1]
                                 \in {"Remove", "Modify", "Error", "Other"})
                => /\ fs_tasks'[n] = fs_tasks[n]
                   /\ fs_calls'[n] = fs_calls[n]
                   /\ blob_store'[n] = blob_store[n]
                   /\ sent'[n] = sent[n]
         /\ fs_tasks'[n] # fs_tasks[n] /\ Len(fs_tasks'[n]) # Len(fs_tasks[n])
                => /\ TakesEvent(n)
                   /\ PayloadOf(fs[n], Head(watch_q[n]))[1] = "Create"
                   /\ fs_tasks'[n] = Append(fs_tasks[n], NewFsTask(PayloadOf(fs[n], Head(watch_q[n]))[2]))
         /\ blob_store'[n] # blob_store[n]
                => \E i \in 1..Len(fs_tasks[n]) :
                       FsTaskAt(n, i, "import") /\ fs_tasks'[n][i].pc = "read_topic"
         /\ fs_calls'[n] # fs_calls[n]
                => \E i \in 1..Len(fs_tasks[n]) :
                       FsTaskAt(n, i, "lock_sender") /\ fs_tasks'[n][i].pc = "broadcast"]_vars

\* C24 witness: with the node joined, a file was created and announced, then
\* changed, and the Modify event has been dispatched: there is the one task
\* and the one broadcast of the creation
C24_Witness ==
    \E n \in Nodes :
        /\ IsSome(gossip_topic[n]) /\ IsSome(gossip_sender[n])
        /\ fsops[n] = 2
        /\ watch_q[n] = <<>>
        /\ Len(fs_tasks[n]) = 1 /\ fs_tasks[n][1].pc = "done"
        /\ Len(fs_calls[n]) = 1 /\ Len(sent[n]) = 1
        /\ IsFile(fs[n], fs_tasks[n][1].path)
        /\ ImportedBlob(fs[n], fs_tasks[n][1].path) \notin blob_store[n]

\* task i of node n takes a step
TaskSteps(n, i) ==
    /\ i \in 1..Len(fs_tasks[n])
    /\ fs_tasks'[n][i] # fs_tasks[n][i]

\* task i ends in this step without a broadcast call
DropsQuietly(n, i) ==
    /\ fs_tasks'[n][i].pc = "done"
    /\ fs_calls'[n] = fs_calls[n]
    /\ sent'[n] = sent[n]

\* the blob of the ticket task i has built is in the node's blob store
Imported(n, i) ==
    /\ IsSome(fs_tasks[n][i].ticket)
    /\ \E c \in blob_store[n] : Hash(c) = Unwrap(fs_tasks[n][i].ticket).hash

PcRank(pc) ==
    CASE pc = "import" -> 0
      [] pc = "read_topic" -> 1
      [] pc = "lock_sender" -> 2
      [] pc = "broadcast" -> 3
      [] pc = "done" -> 4

\* C26: no retries: a task set off by a Create event only moves forward, so it
\* attempts the import once and calls broadcast at most once; once it has
\* ended, dropped as not ready or after a failed import or broadcast, it never
\* acts again; a broadcast call is made only by a task on its way, and a new
\* task appears only when a Create event is taken from the watcher's channel.
C26_NoRetries ==
    /\ [][\A n \in Nodes :
            /\ \A i \in 1..Len(fs_tasks[n]) :
                  /\ i \in 1..Len(fs_tasks'[n])
                  /\ fs_tasks'[n][i].path = fs_tasks[n][i].path
                  /\ TaskSteps(n, i) => PcRank(fs_tasks'[n][i].pc) > PcRank(fs_tasks[n][i].pc)
                  /\ fs_tasks[n][i].pc = "done" => CallsOf(n, i)' = CallsOf(n, i)
            /\ Len(fs_tasks'[n]) # Len(fs_tasks[n]) =>
                  /\ TakesEvent(n)
                  /\ PayloadOf(fs[n], Head(watch_q[n]))[1] = "Create"
                  /\ Len(fs_tasks'[n]) = Len(fs_tasks[n]) + 1
            /\ fs_calls'[n] # fs_calls[n] =>
                  \E i \in 1..Len(fs_tasks[n]) :
                      /\ FsTaskAt(n, i, "lock_sender")
                      /\ Len(fs_calls'[n]) = Len(fs_calls[n]) + 1
                      /\ CallsOf(n, i)' = CallsOf(n, i) \cup {Len(fs_calls'[n])}]_vars
    /\ [](\A n \in Nodes :
            /\ \A i \in 1..Len(fs_tasks[n]) : Cardinality(CallsOf(n, i)) <= 1
            /\ Len(sent[n]) <= Len(fs_calls[n]))

\* C26 witness: a task has ended after its one broadcast call failed, the
\* file it was to announce is still there, and nothing was sent
C26_Witness ==
    \E n \in Nodes : \E i \in 1..Len(fs_tasks[n]) :
        /\ fs_tasks[n][i].pc = "done"
        /\ Cardinality(CallsOf(n, i)) = 1
        /\ Exists(fs[n], fs_tasks[n][i].path)
        /\ sent[n] = <<>>
        /\ watch_q[n] = <<>>

\* C28: broadcast order within one sender: the broadcast calls for Create
\* events are made in the order in which the watcher delivered the events.
C28_BroadcastOrder ==
    \A n \in Nodes : \A c1, c2 \in 1..Len(fs_calls[n]) :
        c1 < c2 => fs_calls[n][c1].task < fs_calls[n][c2].task

\* a download task of node n has failed
SomeFailed(n) == \E j \in 1..Len(downloads[n]) : downloads[n][j].result = "err"

\* C29: a failed download or export affects only its announcement: the step
\* in which a download task fails records the failure in that task alone and
\* leaves the receive loop and every other task as they are; the loop keeps
\* running, and every announcement still waiting after a failure is taken by
\* the loop.
C29_FailureIsLocal ==
    /\ [][\A n \in Nodes :
            /\ \A j \in 1..Len(downloads[n]) :
                  (downloads[n][j].result # "err" /\ downloads'[n][j].result = "err") =>
                      /\ subs' = subs
                      /\ emitted' = emitted
                      /\ Len(downloads'[n]) = Len(downloads[n])
                      /\ \A j2 \in 1..Len(downloads[n]) :
                            j2 # j => downloads'[n][j2] = downloads[n][j2]
            /\ \A k \in 1..Len(subs[n]) :
                  subs[n][k].loop => (k \in 1..Len(subs'[n]) /\ subs'[n][k].loop)]_vars
    /\ \A n \in Nodes : \A k \in 1..MaxJoins :
          (SomeFailed(n) /\ k \in 1..Len(subs[n]) /\ subs[n][k].loop
               /\ subs[n][k].inbox # <<>>)
             ~> (k \in 1..Len(subs[n]) /\ subs[n][k].inbox = <<>>)

\* C29 witness: a download has failed and an announcement received after it
\* was downloaded and exported, with the loop still running
C29_Witness ==
    \E n \in Nodes : \E j1, j2 \in 1..Len(downloads[n]) :
        /\ j1 < j2
        /\ downloads[n][j1].result = "err"
        /\ downloads[n][j2].result = "ok"
        /\ Exists(fs[n], Resolve(DestPath(downloads[n][j2].payload)))
        /\ \E k \in 1..Len(subs[n]) : subs[n][k].loop /\ subs[n][k].inbox = <<>>

\* the payload at the head of subscription k has the fields of a
\* ClipboardAnnouncement
HeadHasClipboardFields(n, k) ==
    {"from_node_id", "content"} \subseteq DOMAIN Head(subs[n][k].inbox)

\* the step routes to the clipboard path (the clipboard is written) or to the
\* file path (a download task is spawned)
TakesClipboardPath(n, k) == clipboard'[n] # clipboard[n] \/ subs'[n][k].pc = "lock_last"
TakesFilePath(n) == downloads'[n] # downloads[n]

\* C27: payload routing is try-parse with clipboard first: a step of the
\* receive loop that handles a Received payload takes at most one of the two
\* paths, and a payload that has the fields of a ClipboardAnnouncement, also
\* one that has all fields of a FileAnnouncement besides, spawns no download
\* and emits no UI event.
C27_ClipboardFirst ==
    [][\A n \in Nodes : \A k \in 1..Len(subs[n]) :
          (Consumes(n, k) /\ IsReceived(Head(subs[n][k].inbox))) =>
              /\ ~(TakesClipboardPath(n, k) /\ TakesFilePath(n))
              /\ HeadHasClipboardFields(n, k) =>
                    /\ ~TakesFilePath(n)
                    /\ emitted'[n] = emitted[n]
              /\ TakesFilePath(n) =>
                    /\ IsSome(FileFromBytes(Head(subs[n][k].inbox)))
                    /\ "gossip://message" \in emitted'[n]]_vars

\* C27 witness: a payload with the fields of both announcements was handled:
\* its content is on the clipboard, no download was spawned and no
\* gossip://message event emitted
C27_Witness ==
    \E n \in Nodes :
        /\ handled[n] = Some(BothPayload)
        /\ clipboard[n] = BothPayload.content
        /\ downloads[n] = <<>>
        /\ "gossip://message" \notin emitted[n]

\* C30: the receive loop ends exactly when its stream ends: a step that stops
\* a running loop is the one that finds the stream ended, and the loop has
\* then returned; handling an error of the stream, a Received event, a
\* neighbor event or any other event leaves the loop running at
\* receiver.next(); a running loop whose stream ends does return.
C30_EndsWithStream ==
    /\ [][\A n \in Nodes : \A k \in 1..Len(subs[n]) :
            /\ (subs[n][k].loop /\ ~subs'[n][k].loop) =>
                  /\ AtNext(n, k)
                  /\ Head(subs[n][k].inbox) = StreamEnd
                  /\ subs'[n][k].pc = "finished"
            /\ (Consumes(n, k) /\ Head(subs[n][k].inbox) = StreamEnd) =>
                  /\ ~subs'[n][k].loop
                  /\ subs'[n][k].pc = "finished"
            /\ (Consumes(n, k) /\ Head(subs[n][k].inbox) # StreamEnd) =>
                  /\ subs'[n][k].loop
                  /\ subs'[n][k].pc \in {"next", "lock_last"}]_vars
    /\ \A n \in Nodes : \A k \in 1..MaxJoins :
          (k \in 1..Len(subs[n]) /\ subs[n][k].loop /\ ~StreamOpen(n, k))
             ~> (k \in 1..Len(subs[n]) /\ subs[n][k].pc = "finished")

\* C30 witness: the loop logged an error of the stream, went on, and returned
\* when the stream ended
C30_Witness ==
    \E n \in Nodes : \E k \in 1..Len(subs[n]) :
        /\ subs[n][k].pc = "finished"
        /\ ~subs[n][k].loop
        /\ handled[n] = Some(StreamError)
        /\ subs[n][k].inbox = <<>>

\* the event loop of node n has ended and dropped the receiver of the channel
ReceiverDropped(n) == watcher[n] = "dead"

\* C31: the watcher thread exits after the receiving end of its event channel
\* has been dropped.
C31_ThreadExitsWithReceiver ==
    \A n \in Nodes :
        (watch_thread[n] = "watching" /\ ReceiverDropped(n)) ~> (watch_thread[n] = "exited")

\* the ticket of the join in progress on node n lists node n and nobody else
OnlySelfListed(n) ==
    LET t == Unwrap(TicketFromStr(join[n].ticket))
    IN  /\ t.nodes # <<>>
        /\ \A i \in 1..Len(t.nodes) : t.nodes[i].node_id = n

\* C32: join installs only foreign peers: the address book of a node never
\* holds the node's own id, no subscribe call was handed the node's own id as
\* a bootstrap peer, and the join step for a ticket that lists only the local
\* node adds no address and subscribes with no bootstrap peer.
C32_ForeignPeersOnly ==
    /\ [](\A n \in Nodes :
             /\ n \notin address_book[n]
             /\ \A c \in 1..Len(bootstrap[n]) : \A i \in 1..Len(bootstrap[n][c]) :
                    bootstrap[n][c][i] # n)
    /\ [][\A n \in Nodes :
             (join[n].pc = "set_topic" /\ join'[n] # join[n] /\ OnlySelfListed(n)) =>
                 /\ join'[n].pc = "set_sender"
                 /\ address_book'[n] = address_book[n]
                 /\ bootstrap'[n] = Append(bootstrap[n], <<>>)
                 /\ Len(subs'[n]) = Len(subs[n]) + 1]_vars

\* C32 witness: a join with a ticket that lists only the local node has
\* succeeded: it subscribed with no bootstrap peer and added no address
C32_Witness ==
    \E n \in Nodes :
        /\ join[n].result = "ok"
        /\ "gossip-ready" \in emitted[n]
        /\ bootstrap[n] = << <<>> >>
        /\ address_book[n] = {}
        /\ IsSome(gossip_sender[n])

\* the step is a join_gossip command on node n whose ticket string does not
\* parse
JoinWithBadTicket(n) ==
    /\ joins'[n] = joins[n] + 1
    /\ TicketFromStr(join'[n].ticket) = NoneOpt

\* C33: join_gossip with a ticket string that does not parse returns an error
\* and changes nothing: the store, active_topic, active_sender and the
\* subscriptions with their loops stay as they are and nothing is emitted.
C33_BadTicketChangesNothing ==
    [][\A n \in Nodes :
          JoinWithBadTicket(n) =>
              /\ join'[n].pc = "idle"
              /\ join'[n].result = "err"
              /\ store'[n] = store[n]
              /\ gossip_topic'[n] = gossip_topic[n]
              /\ gossip_sender'[n] = gossip_sender[n]
              /\ subs'[n] = subs[n]
              /\ emitted'[n] = emitted[n]
              /\ address_book'[n] = address_book[n]]_vars

\* C33 witness: after a successful join a second join_gossip with a string
\* that is no ticket has failed; topic, sender, stored topic and loop are
\* those of the first join
C33_Witness ==
    \E n \in Nodes :
        /\ joins[n] = 2
        /\ join[n].pc = "idle" /\ join[n].result = "err"
        /\ TicketFromStr(join[n].ticket) = NoneOpt
        /\ join[n].ticket = CutTicket
        /\ IsSome(gossip_topic[n]) /\ IsSome(gossip_sender[n])
        /\ store[n].topic_id = Some(TopicToString(Unwrap(gossip_topic[n])))
        /\ Len(subs[n]) = 1 /\ subs[n][1].loop

\* the receive loops of node n that are running
ActiveLoops(n) == { k \in 1..Len(subs[n]) : subs[n][k].loop }

\* C36: at most one receive loop is active per process after any sequence of
\* join_gossip calls; a payload broadcast once starts at most one download;
\* a loop that applies a payload belongs to the active topic.
C36_SingleLoop ==
    \A n \in Nodes :
        /\ Cardinality(ActiveLoops(n)) <= 1
        /\ Len(downloads[n]) <= injected[n]
        /\ \A k \in ActiveLoops(n) :
              subs[n][k].pc = "lock_last" => gossip_topic[n] = Some(subs[n][k].topic)

\* the FsEventType the mapping table of the watcher gives a platform kind,
\* for a first path that exists or not when the event is handled
MappedKind(kind, exists) ==
    CASE kind \in {"Create", "RenameTo"} -> "Create"
      [] kind \in {"Remove", "RenameFrom"} -> "Remove"
      [] kind \in {"ModifyData", "ModifyMetadata", "ModifyAny", "RenameBoth"} -> "Modify"
      [] kind = "RenameAny" -> IF exists THEN "Create" ELSE "Remove"
      [] kind \in {"Access", "Other", "Any", "ModifyOther", "RenameOther"} -> "Other"
      [] kind = "Error" -> "Error"

\* C34: the fs-event emitted for a platform event has kind Create for create
\* and rename-to, Remove for remove and rename-from, Modify for data,
\* metadata, generic modify and rename-both, Create or Remove for rename-any
\* as the path exists when the event is handled, Other for access and unknown
\* kinds, and Error with an empty path for a watcher error; the path is the
\* event's first path, or empty when it has none.
C34_EventMapping ==
    [][\A n \in Nodes :
          (TakesEvent(n) /\ Managed(n)) =>
              LET event == Head(watch_q[n])
                  first == IF event.paths = <<>> THEN <<>> ELSE event.paths[1]
              IN  /\ "fs-event" \in emitted'[n]
                  /\ IsSome(fs_event'[n])
                  /\ Unwrap(fs_event'[n])[1] = MappedKind(event.kind, Exists(fs[n], first))
                  /\ Unwrap(fs_event'[n])[2] = IF event.kind = "Error" THEN <<>> ELSE first]_vars

\* C34 witness: a rename of unknown direction was reported for top.txt, which
\* does not exist, and handled as a Remove; no task was spawned
C34_Witness ==
    \E n \in Nodes :
        /\ fsops[n] = 1 /\ watch_q[n] = <<>>
        /\ fs_event[n] = Some(FsEventPayload("Remove", SyncFolder \o <<"top.txt">>))
        /\ ~Exists(fs[n], SyncFolder \o <<"top.txt">>)
        /\ fs_tasks[n] = <<>>

\* C35: a poll tick whose clipboard read fails (empty or non-text content), or
\* yields the empty text, broadcasts nothing, leaves last_content as it is and
\* ends with the poller asleep for the next tick; no payload the poller
\* broadcasts carries such content.
C35_FailedReadIgnored ==
    [][\A n \in Nodes :
          /\ (poller[n].pc = "get_text" /\ poller'[n] # poller[n] /\ clipboard[n] = NonText)
                => /\ poller'[n].pc = "sleep"
                   /\ sent'[n] = sent[n] /\ subs' = subs
                   /\ last_content'[n] = last_content[n]
                   /\ last_lock'[n] = Free /\ clip_lock'[n] = Free
          /\ (poller[n].pc = "compare" /\ poller'[n] # poller[n] /\ poller[n].text = Some(""))
                => /\ poller'[n].pc = "sleep"
                   /\ sent'[n] = sent[n] /\ subs' = subs
                   /\ last_content'[n] = last_content[n]
                   /\ last_lock'[n] = Free
          /\ PollerSends(n)
                => SentText(n) \notin {"", NonText}]_vars

\* C35 witness: after a text was broadcast the clipboard holds an image and a
\* tick that passed its checks is at the clipboard read
C35_Witness ==
    \E n \in Nodes :
        /\ poller[n].pc = "get_text"
        /\ clipboard[n] = NonText
        /\ last_content[n] \in {"x", "y"}
        /\ sent[n] # <<>>
        /\ copies[n] = 2

\* a tick is not skipped unless its checks pass, and a skipped tick reads
\* nothing and changes nothing: the poller leaves its sleep only with sharing
\* enabled and an endpoint, reaches the clipboard read only with a sender and
\* a topic, and the step that finds one of them absent puts it back to sleep
SkippedTickIsInert(n) ==
    /\ (poller[n].pc = "sleep" /\ poller'[n].pc \notin {"sleep", "off"})
          => /\ store[n].sharing = "true"
             /\ Managed(n) /\ IsSome(State(n).endpoint)
             /\ poller'[n].pc = "lock_sender"
    /\ (poller[n].pc # "get_text" /\ poller'[n].pc = "get_text")
          => /\ IsSome(poller'[n].sender) /\ IsSome(poller'[n].topic)
             /\ poller[n].pc = "lock_topic"
    /\ (poller[n].pc = "lock_topic" /\ poller'[n] # poller[n]
           /\ (poller[n].sender = NoneOpt \/ gossip_topic[n] = NoneOpt))
          => /\ poller'[n].pc = "sleep"
             /\ last_content'[n] = last_content[n]
             /\ clip_lock'[n] = clip_lock[n] /\ last_lock'[n] = last_lock[n]
             /\ sent'[n] = sent[n]
    /\ (poller[n].pc \in {"sleep", "lock_sender", "lock_topic"} /\ poller'[n] # poller[n])
          => /\ last_content'[n] = last_content[n] \/ poller'[n].pc = "off"
             /\ clip_lock'[n] = clip_lock[n]

\* the compare step of the first tick that has read a text the user placed
\* while ticks were skipped
FirstCompare(n) ==
    /\ placed[n] = "reading"
    /\ poller[n].pc = "compare" /\ poller'[n] # poller[n]
    /\ Unwrap(poller[n].text) # ""

\* C40 as stated: a skipped tick does not read the clipboard and leaves
\* last_content unchanged, and a text placed on the clipboard while ticks were
\* skipped and still there is handed to broadcast by the first tick that is
\* not skipped.
C40_PlacedTextBroadcast ==
    [][\A n \in Nodes :
          /\ SkippedTickIsInert(n)
          /\ FirstCompare(n) => poller'[n].pc = "broadcast"]_vars

\* C40 (amended): a skipped tick does not read the clipboard and leaves
\* last_content unchanged, and a text placed on the clipboard while ticks were
\* skipped, still there and different from last_content is handed to
\* broadcast by the first tick that is not skipped; a text equal to
\* last_content is not broadcast.
C40_PlacedTextBroadcastIfNew ==
    [][\A n \in Nodes :
          /\ SkippedTickIsInert(n)
          /\ FirstCompare(n) =>
                /\ poller[n].text = Some(clipboard[n])
                /\ IF clipboard[n] # last_content[n]
                   THEN poller'[n].pc = "broadcast"
                   ELSE poller'[n].pc = "sleep" /\ sent'[n] = sent[n]]_vars

\* C40 witness: a text copied while ticks were skipped has been read by the
\* first tick after sharing was enabled and the topic joined, and is being
\* broadcast
C40_Witness ==
    \E n \in Nodes :
        /\ placed[n] = "reading"
        /\ poller[n].pc = "broadcast"
        /\ poller[n].text = Some(clipboard[n])
        /\ clipboard[n] \in {"x", "y"}
        /\ sent[n] = <<>>
        /\ last_content[n] = ""

\* the dispatcher tasks of node n that have made their broadcast call
Broadcasting(n) == { i \in 1..Len(fs_tasks[n]) : fs_tasks[n][i].pc = "broadcast" }

\* C37: every file announcement is broadcast through a sender subscribed to
\* the topic named in its topic field: the topic a dispatcher task has read
\* and the sender it has taken belong to the same join.
C37_TopicMatchesSender ==
    \A n \in Nodes : \A i \in Broadcasting(n) :
        /\ fs_tasks[n][i].topic = Some(Unwrap(fs_tasks[n][i].via).topic)
        /\ Unwrap(fs_tasks[n][i].msg).topic = Unwrap(fs_tasks[n][i].via).topic

\* the task whose lock a task waits for, or Free when it waits for none
WaitsFor(n, task) ==
    IF Wants(n, task) = "none" \/ HolderOf(n, Wants(n, task)) = task
    THEN Free
    ELSE HolderOf(n, Wants(n, task))

\* the tasks a task waits for, directly or through the tasks in between
RECURSIVE WaitChain(_, _, _)
WaitChain(n, task, fuel) ==
    IF fuel = 0 \/ WaitsFor(n, task) = Free
    THEN {}
    ELSE {WaitsFor(n, task)} \cup WaitChain(n, WaitsFor(n, task), fuel - 1)

\* the locks a task holds
Held(n, task) == { lock \in {"topic", "sender", "clipboard", "last"} : HolderOf(n, lock) = task }

\* C38: no task holds the gossip_topic lock and the gossip_sender lock at the
\* same time; a task that holds the last_content lock neither holds nor takes
\* the clipboard lock unless it took the clipboard lock first, which only the
\* receive path does; no set of tasks wait on each other's locks, and a lock
\* is held only by a task that does not wait or waits for a lock outside the
\* ones it holds.
C38_NoLockCycle ==
    \A n \in Nodes : \A task \in ByTask(n) :
        /\ ~(topic_lock[n] = task /\ sender_lock[n] = task)
        /\ last_lock[n] = task => Wants(n, task) # "clipboard"
        /\ (last_lock[n] = task /\ clip_lock[n] = task) => task[1] = "recv"
        /\ task \notin WaitChain(n, task, Cardinality(ByTask(n)))
        /\ topic_lock[n] = task => Held(n, task) = {"topic"} /\ Wants(n, task) = "topic"

\* C38 witness: a receive loop holds the clipboard lock and the last_content
\* lock, the poller waits for the clipboard lock, a dispatcher task holds the
\* gossip_sender lock and a second join_gossip command holds the gossip_topic
\* lock
C38_Witness ==
    \E n \in Nodes :
        /\ clip_lock[n] = ByRecv(1) /\ last_lock[n] = ByRecv(1)
        /\ WaitsFor(n, ByPoller) = ByRecv(1)
        /\ sender_lock[n] = ByFs(1)
        /\ topic_lock[n] = ByJoin

\* the receive path of node n has exported a file to the path
ExportedHere(n, path) ==
    \E j \in 1..Len(downloads[n]) :
        /\ downloads[n][j].result = "ok"
        /\ Resolve(DestPath(downloads[n][j].payload)) = path

\* C39: the dispatcher keeps no record of the paths the receive path writes:
\* a Create event for a file the receive path has exported spawns a task for
\* that path like any other Create event, and every announcement a node
\* builds, also for such a file, carries the node's own id as from, the
\* path below the sync folder and a ticket of its own blob store.
C39_ExportedFileAnnounced ==
    /\ [][\A n \in Nodes :
            (TakesEvent(n) /\ Managed(n)
               /\ PayloadOf(fs[n], Head(watch_q[n]))[1] = "Create"
               /\ ExportedHere(n, PayloadOf(fs[n], Head(watch_q[n]))[2]))
            => fs_tasks'[n] = Append(fs_tasks[n],
                                     NewFsTask(PayloadOf(fs[n], Head(watch_q[n]))[2]))]_vars
    /\ [](\A n \in Nodes : \A i \in 1..Len(fs_tasks[n]) :
            (ExportedHere(n, fs_tasks[n][i].path) /\ IsSome(fs_tasks[n][i].msg))
            => /\ Unwrap(fs_tasks[n][i].msg).from = n
               /\ Unwrap(fs_tasks[n][i].msg).relative_path
                     = PathToString(Unwrap(StripPrefix(fs_tasks[n][i].path, SyncFolder)))
               /\ Unwrap(fs_tasks[n][i].msg).message_content.node = n)

\* C39 witness: B, whose user has done nothing, received docs/hello.txt from
\* A, exported it and has broadcast an announcement of it in its own name
C39_Witness ==
    /\ fsops["B"] = 0
    /\ ExportedHere("B", HelloPath)
    /\ \E j \in 1..Len(downloads["B"]) : downloads["B"][j].payload.from = "A"
    /\ \E i \in 1..Len(sent["B"]) :
          /\ sent["B"][i].from = "B"
          /\ sent["B"][i].relative_path = PathToString(<<"docs", "hello.txt">>)

====
